---- MODULE Spec2Model ----
(***************************************************************************)
(* Model of the training-session engine of the Morse trainer (src/main.py, *)
(* class MorseTrainer): the playback worker (play_symbols_loop, play_word),*)
(* the time_attack timer thread, and the handlers the UI thread runs       *)
(* (on_start_stop_click, on_keyboard_event, on_word_submit,                *)
(* on_training_type_change, toggle_training_mode, on_speed_change).        *)
(*                                                                         *)
(* Threads interleave at the granularity of the labelled steps below; the  *)
(* UI thread runs one handler at a time.  threading.Event is modelled by   *)
(* the flag input_event plus the set of workers blocked inside wait():     *)
(* set() releases every blocked worker, even if the flag is cleared again  *)
(* before the worker runs.                                                 *)
(*                                                                         *)
(* Characters are written as ASCII tokens: "S" is Latin S, "s" Latin s,    *)
(* "Ru_S" the Cyrillic capital Es, "ru_s" the Cyrillic small es.  Speeds   *)
(* are in tenths (10 = 1.0x, 20 = 2.0x).  Time is in seconds, from an       *)
(* arbitrary origin.                                                       *)
(*                                                                         *)
(* The specifications at the end are sessions of one training type each:   *)
(* SpecTraining (symbols or words), SpecChallenge, FairRestart,            *)
(* FairTimeAttack and FairSpeedTest; the Fair ones assume that a thread    *)
(* that can run eventually does.  SpecModes is one session of any training *)
(* type; SpecWeakSpots is a weak_spots session over recorded tallies;      *)
(* SpecTiming applies the duration and audio functions to every pattern    *)
(* at every speed of the slider.                                           *)
(* FairUnknown is a session whose pattern table may have failed to load;   *)
(* SpecAssets a local run that writes temporary audio files; SpecSessions  *)
(* a trainer started and stopped several times; SpecSwitch, SpecToggle     *)
(* and SpecUnits change the training type, the speed or the training mode  *)
(* while a session runs; SpecRight is a session of a user who always       *)
(* answers the pending unit.  SpecThreads restarts a time_attack session;  *)
(* SpecLevels is a challenge with the checkbox and the type radio in play; *)
(* SpecCrowded a weak_spots session over tallies of unticked symbols;      *)
(* SpecRecords a session started with or without training mode.            *)
(*                                                                         *)
(* The accounts (class Database, on_login_click, on_register_click,        *)
(* on_logout_click, show_admin_panel) are modelled at the end; user names  *)
(* and passwords are sequences of one-character strings.  SpecAccounts     *)
(* starts at the login screen of a fresh database.                         *)
(***************************************************************************)
EXTENDS Integers, Sequences, FiniteSets, TLC

(***************************************************************************)
(* Bounds of the model.                                                    *)
(***************************************************************************)
MaxWorkers == 2
MaxUsers == 3                 \* rows of the users table
MaxTimers == 2
MaxAnswers == 2
MaxStarts == 2
MaxTime == 90
MaxCorrect == 56
MaxMistakes == 1

(***************************************************************************)
(* Program constants.                                                      *)
(***************************************************************************)
CHALLENGE_STREAK_THRESHOLD == 5
CHALLENGE_SPEED_STEP == 1
MAX_SPEED_MULTIPLIER == 20
WEAK_SYMBOLS_LIMIT == 10
MIN_SPEED_MULTIPLIER == 10
DEFAULT_SPEED_TEST_TARGET == 20
DEFAULT_TIME_ATTACK_DURATION == 60
AUDIO_SAMPLE_RATE == 44100
\* 0.08 s, in hundredths of a second
BASE_DIT_DURATION == 8
\* line 1169: len(self.temp_audio_files) > 50
TEMP_FILES_LIMIT == 50

None == "None"
NoWord == << >>

(***************************************************************************)
(* Characters.                                                             *)
(***************************************************************************)
LatinUpper == {"C", "S", "O", "J"}
LatinLower == {"c", "s", "o", "j"}
CyrUpper == {"Ru_S", "Ru_O", "Ru_D", "Ru_M", "Ru_K", "Ru_T", "Ru_YERU", "Ru_SHCH"}
\* the Ukrainian capital I of the word list, which is none of the trainer's letters
UkrUpper == {"Uk_I"}
CyrLower == {"ru_s", "ru_o", "ru_d", "ru_m"}
Digits == {"1"}
Space == " "
Tab == "Tab_char"
Chars ==
    LatinUpper \cup LatinLower \cup CyrUpper \cup UkrUpper \cup CyrLower \cup Digits
        \cup {Space, Tab}

\* str.upper() on one character
UpperChar(c) ==
    CASE c = "c" -> "C"
      [] c = "s" -> "S"
      [] c = "o" -> "O"
      [] c = "j" -> "J"
      [] c = "ru_s" -> "Ru_S"
      [] c = "ru_o" -> "Ru_O"
      [] c = "ru_d" -> "Ru_D"
      [] c = "ru_m" -> "Ru_M"
      [] OTHER -> c

\* str.upper() on a string
Upper(s) == [i \in 1..Len(s) |-> UpperChar(s[i])]

IsWhitespace(c) == c \in {Space, Tab}

\* str.strip(): drop leading and trailing whitespace
RECURSIVE LStrip(_)
LStrip(s) == IF s # << >> /\ IsWhitespace(Head(s)) THEN LStrip(Tail(s)) ELSE s

RECURSIVE RStrip(_)
RStrip(s) ==
    IF s # << >> /\ IsWhitespace(s[Len(s)]) THEN RStrip(SubSeq(s, 1, Len(s) - 1)) ELSE s

Strip(s) == RStrip(LStrip(s))

\* str.replace(" ", ""): drop every space character (and only spaces)
RECURSIVE ReplaceSpaces(_)
ReplaceSpaces(s) ==
    IF s = << >> THEN << >>
    ELSE IF Head(s) = Space THEN ReplaceSpaces(Tail(s))
    ELSE <<Head(s)>> \o ReplaceSpaces(Tail(s))

\* the normalisation without the upper-casing
NormalizeKeepCase(s) == ReplaceSpaces(Strip(s))

\* check_word_answer, line 815: str(input_text).strip().upper().replace(" ", "")
NormalizeInput(s) == ReplaceSpaces(Upper(Strip(s)))

(***************************************************************************)
(* The keyboard-layout table (the entries for the modelled keys).          *)
(***************************************************************************)
key_mapping(k) ==
    CASE k = "C" -> "Ru_S"
      [] k = "S" -> "Ru_YERU"
      [] k = "O" -> "Ru_SHCH"
      [] k = "J" -> "Ru_O"
      [] k = "1" -> "1"
      [] OTHER -> None

(***************************************************************************)
(* Symbols, words and inputs of the model.                                 *)
(***************************************************************************)
\* lines 289-294: the symbols that have a checkbox
digits == {"0", "1", "2", "3", "4", "5", "6", "7", "8", "9"}
letters ==
    {"Ru_A", "Ru_B", "Ru_V", "Ru_G", "Ru_D", "Ru_E", "Ru_ZH", "Ru_Z", "Ru_I", "Ru_SHORT_I",
     "Ru_K", "Ru_L", "Ru_M", "Ru_N", "Ru_O", "Ru_P", "Ru_R", "Ru_S", "Ru_T", "Ru_U",
     "Ru_F", "Ru_KH", "Ru_TS", "Ru_SH", "Ru_SHCH", "Ru_YERU", "Ru_SOFT", "Ru_EH", "Ru_YU",
     "Ru_YA"}

\* the checkboxes the modelled user works with
Symbols == {"1", "Ru_S"}

\* three of the words of lines 423-429: the first, "DOM", and "KIT", which is spelled with
\* the Ukrainian I
Word_SOS == <<"Ru_S", "Ru_O", "Ru_S">>
Word_DOM == <<"Ru_D", "Ru_O", "Ru_M">>
Word_KIT == <<"Ru_K", "Uk_I", "Ru_T">>
training_words == {Word_SOS, Word_DOM, Word_KIT}

\* the symbols morse_data.json holds a pattern for: the digits and the 30 letters
morse_data == digits \cup letters

TrainingTypes == {"normal", "words", "challenge", "weak_spots", "speed_test", "time_attack"}

\* values of e.key: single characters, a named key, and no key
NamedKey == "Enter"
NoKey == ""
Keys == {"C", "c", "S", "Ru_S", "1", NamedKey, NoKey}

\* values of the word field on submit
InputTexts ==
    { << >>,
      <<Space>>,
      <<Space, "ru_s", "ru_o", "ru_s", Space>>,
      <<"Ru_S", Space, "Ru_O", "Ru_S">>,
      <<"S", "O", "S">>,
      <<"Ru_S", "Ru_O", "Ru_S">>,
      <<"ru_d", "ru_o", "ru_m">>,
      <<"Ru_S", Tab, "Ru_O", "Ru_S">> }

(***************************************************************************)
(* State.                                                                  *)
(***************************************************************************)
VARIABLES
    selected,                    \* get_selected_symbols(): the ticked symbols
    is_logged_in,
    sound,                       \* the pattern morse_data.json gives the symbol to play,
                                 \* and what the two timing functions last made of it
    morse_codes,                 \* the keys of self.morse_codes
    use_data_uri,
    temp_audio_files,            \* the tracked files, oldest first; a file is the number
                                 \* of the NamedTemporaryFile call that made it
    temp_files_made,             \* NamedTemporaryFile calls so far
    training_mode,
    training_type,
    word_input_visible,          \* word_input_field.visible
    speed_slider_disabled,       \* speed_slider.disabled
    is_playing,
    input_event,                 \* the flag of threading.Event
    speed_multiplier,            \* in tenths
    correct_answers,
    incorrect_answers,
    symbol_stats,                \* symbol -> [correct, incorrect], order: place in the dict
    current_symbol,
    current_word,
    challenge_correct_streak,
    challenge_level,
    speed_test_target,
    speed_test_completed,
    speed_test_start_time,
    speed_test_wpm,
    time_attack_duration,
    time_attack_start_time,
    time_attack_remaining_time,
    time_attack_timer_running,
    achievements,                \* the save_achievement calls made, in order
    status_text,
    stats_text,                  \* stats_text.value: which of its lines it shows
    now,                         \* time.time(), seconds
    starts,                      \* sessions started so far
    ui,                          \* the UI thread: the handler it is running
    worker,                      \* the play_symbols_loop threads
    timer,                       \* the time_attack_timer threads
    unit_answers,                \* history: answers scored since a worker last selected a unit
    clear_answers,               \* history: answers scored since input_event was last cleared
    users,                       \* the rows of the users table, in order of insertion
    current_user,
    admin_btn_visible,           \* admin_btn.visible
    admin_panel_open,            \* the admin dialog is in page.overlay
    login_status_text,
    register_status_text

assetVars == <<morse_codes, use_data_uri, temp_audio_files, temp_files_made>>
accountVars ==
    <<users, current_user, admin_btn_visible, admin_panel_open, login_status_text,
      register_status_text>>
cfgVars == <<selected, is_logged_in, accountVars, sound, assetVars>>
modeVars == <<training_mode, training_type, word_input_visible, speed_slider_disabled>>
scoreVars == <<correct_answers, incorrect_answers, symbol_stats>>
challengeVars == <<challenge_correct_streak, challenge_level>>
speedTestVars ==
    <<speed_test_target, speed_test_completed, speed_test_start_time, speed_test_wpm>>
timeAttackVars ==
    <<time_attack_duration, time_attack_start_time, time_attack_remaining_time,
      time_attack_timer_running>>
unitVars == <<current_symbol, current_word>>
histVars == <<unit_answers, clear_answers>>

vars ==
    <<selected, is_logged_in, sound, morse_codes, use_data_uri, temp_audio_files,
      temp_files_made, training_mode, training_type, word_input_visible,
      speed_slider_disabled, is_playing, input_event, speed_multiplier, correct_answers,
      incorrect_answers,
      symbol_stats, current_symbol, current_word, challenge_correct_streak,
      challenge_level, speed_test_target, speed_test_completed, speed_test_start_time,
      speed_test_wpm, time_attack_duration, time_attack_start_time,
      time_attack_remaining_time, time_attack_timer_running, achievements, status_text,
      stats_text, now, starts, ui, worker, timer, unit_answers, clear_answers,
      accountVars>>

Workers == 1..MaxWorkers
Timers == 1..MaxTimers
NoTime == 0 - 1

Min(a, b) == IF a <= b THEN a ELSE b
Max(a, b) == IF a >= b THEN a ELSE b

EmptyStats == [s \in {} |-> [correct |-> 0, incorrect |-> 0, order |-> 0]]

WorkerIdle ==
    [pc |-> "idle", symbols |-> {}, symbol |-> None, word |-> NoWord, i |-> 0]

\* the UI thread between handlers.  A handler that scored leaves its input in key / text,
\* one that returned at the answer guard leaves ignored set, and one that returned because
\* shift was held leaves shift set, until the next handler runs
UiIdle ==
    [pc |-> "idle", sel |-> {}, key |-> NoKey, text |-> << >>, ignored |-> FALSE,
     shift |-> FALSE]

\* a duration in seconds, as the fraction num / den
Seconds(num, den) == [num |-> num, den |-> den]

\* the pattern of the symbol to play, before calculate_symbol_duration and
\* generate_morse_audio have been run on it; after a run, sound holds the speed and the
\* results of the last run and of the run before it
Unplayed(morse_code) ==
    [morse_code |-> morse_code, runs |-> 0,
     speed |-> 0, duration |-> Seconds(0, 1), audio_data |-> << >>,
     speed_before |-> 0, duration_before |-> Seconds(0, 1)]

(***************************************************************************)
(* User names and passwords.  str.lower() is computed on the characters of *)
(* the names tried; SHA-256 is taken to be free of collisions on the       *)
(* passwords tried, and a digest is never itself one of them.              *)
(***************************************************************************)
ADMIN_NAME == <<"a", "d", "m", "i", "n">>
ADMIN_PASSWORD == <<"a", "d", "m", "i", "n">>

LowerOf ==
    ("A" :> "a") @@ ("B" :> "b") @@ ("D" :> "d") @@ ("I" :> "i") @@ ("M" :> "m")
    @@ ("N" :> "n") @@ ("O" :> "o")

\* str.lower()
lower(s) == [i \in 1..Len(s) |-> IF s[i] \in DOMAIN LowerOf THEN LowerOf[s[i]] ELSE s[i]]

\* lines 114-116
hash_password(password) == <<"sha256">> \o password

\* lines 100-110: the users table of a database file created by this run
init_database ==
    << [id |-> 1, username |-> ADMIN_NAME, password_hash |-> hash_password(ADMIN_PASSWORD)] >>

\* current_user = None
NoUser == [id |-> 0, username |-> << >>]

\* lines 118-137: the INSERT fails on the UNIQUE column when a row has exactly this
\* username (the column has the default BINARY collation, line 74); ids count up
register_user(table, username, password) ==
    IF \E i \in DOMAIN table : table[i].username = username
    THEN [success |-> FALSE, users |-> table]
    ELSE [success |-> TRUE,
          users |-> Append(table, [id |-> Len(table) + 1, username |-> username,
                                   password_hash |-> hash_password(password)])]

\* lines 139-155: the row with exactly this username and this digest, if any
login_user(table, username, password) ==
    LET rows == {i \in DOMAIN table :
                    /\ table[i].username = username
                    /\ table[i].password_hash = hash_password(password)}
    IN  IF rows = {}
        THEN NoUser
        ELSE LET row == table[CHOOSE i \in rows : TRUE]
             IN  [id |-> row.id, username |-> row.username]

\* lines 271-273
is_admin(username) == lower(username) = ADMIN_NAME

\* the seeded administrator has logged in with the default password (lines 1310-1322)
LoggedInAsAdmin ==
    /\ is_logged_in = TRUE
    /\ users = init_database
    /\ current_user = login_user(init_database, ADMIN_NAME, ADMIN_PASSWORD)
    /\ admin_btn_visible = TRUE
    /\ admin_panel_open = FALSE
    /\ login_status_text = ""
    /\ register_status_text = ""

\* lines 282-283: the login screen of a fresh database
AtLoginScreen ==
    /\ is_logged_in = FALSE
    /\ users = init_database
    /\ current_user = NoUser
    /\ admin_btn_visible = FALSE
    /\ admin_panel_open = FALSE
    /\ login_status_text = ""
    /\ register_status_text = ""

(***************************************************************************)
(* MorseTrainer.__init__, after the user has logged in, ticked the symbols *)
(* of `sel`, set the training-mode checkbox to `mode`, picked the training *)
(* type `type`, typed `target` into the symbol-count field and chosen      *)
(* `duration` in the duration dropdown.  With the checkbox on, the type    *)
(* handler has shown the word field for "words" and locked the speed       *)
(* slider for "challenge".                                                 *)
(***************************************************************************)
Assembled(sel, mode, type, target, duration, stats, morse_code) ==
    /\ selected = sel
    /\ sound = Unplayed(morse_code)
    /\ training_mode = mode
    /\ training_type = type
    /\ word_input_visible = (mode /\ type = "words")
    /\ speed_slider_disabled = (mode /\ type = "challenge")
    /\ is_playing = FALSE
    /\ input_event = FALSE
    /\ speed_multiplier = MIN_SPEED_MULTIPLIER
    /\ correct_answers = 0
    /\ incorrect_answers = 0
    /\ symbol_stats = stats
    /\ current_symbol = None
    /\ current_word = NoWord
    /\ challenge_correct_streak = 0
    /\ challenge_level = 1
    /\ speed_test_target = target
    /\ speed_test_completed = 0
    /\ speed_test_start_time = NoTime
    /\ speed_test_wpm = 0
    /\ time_attack_duration = duration
    /\ time_attack_start_time = NoTime
    /\ time_attack_remaining_time = DEFAULT_TIME_ATTACK_DURATION
    /\ time_attack_timer_running = FALSE
    /\ achievements = << >>
    /\ status_text = "ready"
    /\ stats_text = "stats"
    /\ now = 0
    /\ starts = 0
    /\ ui = UiIdle
    /\ worker = [w \in Workers |-> WorkerIdle]
    /\ timer = [t \in Timers |-> "idle"]
    /\ unit_answers = 0
    /\ clear_answers = 0

Constructed(sel, mode, type, target, duration, stats, morse_code) ==
    /\ LoggedInAsAdmin
    /\ Assembled(sel, mode, type, target, duration, stats, morse_code)

\* what the process finds when it starts: the symbols morse_data.json gave a pattern
\* (none if the file could not be read, lines 327-334), and whether it runs on a web host
\* (line 385); no audio file has been written yet
Environment(codes, data_uri) ==
    /\ morse_codes = codes
    /\ use_data_uri = data_uri
    /\ temp_audio_files = << >>
    /\ temp_files_made = 0

\* the constructor on a web host, with morse_data.json read
ConfiguredFor(sel, mode, type, target, duration, stats, morse_code) ==
    /\ Constructed(sel, mode, type, target, duration, stats, morse_code)
    /\ Environment(morse_data, TRUE)

\* the same for a symbol whose pattern plays no part
ConfiguredWith(sel, mode, type, target, duration, stats) ==
    ConfiguredFor(sel, mode, type, target, duration, stats, << >>)

\* the same with nothing tallied yet
Configured(sel, mode, type, target, duration) ==
    ConfiguredWith(sel, mode, type, target, duration, EmptyStats)

\* the state the constructor leaves
Init ==
    Configured(Symbols, FALSE, "normal", DEFAULT_SPEED_TEST_TARGET,
               DEFAULT_TIME_ATTACK_DURATION)

(***************************************************************************)
(* Helpers shared by the handlers.                                         *)
(***************************************************************************)
\* the history counters unit_answers and clear_answers saturate at HistCap
HistCap == 2
Bump(n) == Min(n + 1, HistCap)

\* input_event.set(): the flag is raised and every thread blocked in wait() is released
Release(wk) ==
    [w \in Workers |->
        IF wk[w].pc = "s_blocked" THEN [wk[w] EXCEPT !.pc = "s_ret"]
        ELSE IF wk[w].pc = "pw_blocked" THEN [wk[w] EXCEPT !.pc = "pw_ret"]
        ELSE wk[w]]

\* Python's a / b on numbers kept as integers: it raises ZeroDivisionError when b is 0,
\* which the negative value stands for (every quotient the program forms is >= 0)
ZeroDivisionError == 0 - 1
Div(a, b) == IF b = 0 THEN ZeroDivisionError ELSE a \div b

\* accuracy = (correct / (correct + incorrect) * 100) if (correct + incorrect) > 0 else 0
AccuracyUnguarded(correct, incorrect) == Div(correct * 100, correct + incorrect)

Accuracy(correct, incorrect) ==
    IF correct + incorrect > 0 THEN Div(correct * 100, correct + incorrect) ELSE 0

\* WPM = (completed / 5) / (elapsed / 60), rounded down; 0 when no time has passed
Wpm(completed, elapsed) == IF elapsed > 0 THEN Div(completed * 60, 5 * elapsed) ELSE 0

\* an f-string is assigned only if the values it formats were computed: the line, or the
\* exception that ended the handler instead
ResultLine(line, values) ==
    IF ZeroDivisionError \in values THEN "ZeroDivisionError" ELSE line

\* update_stats_display: the attribute it writes, speed_test_wpm ...
update_stats_display(type, start, completed, old) ==
    IF type = "speed_test" /\ start # NoTime THEN Wpm(completed, now - start) ELSE old

\* ... and the line it puts into stats_text
stats_line(type, start, running, remaining, correct, incorrect) ==
    IF type = "challenge" THEN "level"
    ELSE IF type = "words" THEN "words"
    ELSE IF type = "speed_test" THEN (IF start # NoTime THEN "speed_wpm" ELSE "speed")
    ELSE IF type = "time_attack"
         THEN IF running /\ remaining > 0 THEN "timer"
              ELSE ResultLine("timer_done", {Accuracy(correct, incorrect)})
    ELSE "stats"

\* a dict keeps its keys in the order they were inserted: a new entry goes last
EnsureEntry(stats, sym) ==
    IF sym \in DOMAIN stats THEN stats
    ELSE [s \in DOMAIN stats \cup {sym} |->
            IF s = sym
            THEN [correct |-> 0, incorrect |-> 0, order |-> Cardinality(DOMAIN stats) + 1]
            ELSE stats[s]]

Tally(stats, sym, side) ==
    LET st == EnsureEntry(stats, sym) IN [st EXCEPT ![sym][side] = @ + 1]

\* a thread slot is free before its thread starts and after it has returned or raised
FreeWorkers == {w \in Workers : worker[w].pc \in {"idle", "done", "raised"}}
FreeTimers == {t \in Timers : timer[t] \in {"idle", "done"}}
Lowest(S) == CHOOSE x \in S : \A y \in S : x <= y

\* cleanup_temp_files, lines 1087-1096, under temp_files_lock: the list it leaves
cleanup_temp_files == << >>

(***************************************************************************)
(* save_test_result                                                        *)
(***************************************************************************)
AchievementRecord(mode, score) ==
    [mode |-> mode, score |-> score,
     symbols_completed |->
        IF mode = "speed_test" THEN speed_test_completed
        ELSE correct_answers + incorrect_answers,
     wpm |->
        IF mode = "speed_test"
        THEN Wpm(speed_test_completed, now - speed_test_start_time) ELSE 0,
     accuracy |-> Accuracy(correct_answers, incorrect_answers),
     correct_answers |-> correct_answers, incorrect_answers |-> incorrect_answers]

save_test_result ==
    IF ~is_logged_in THEN achievements
    ELSE IF training_type = "speed_test"
         THEN IF speed_test_start_time # NoTime
              THEN Append(achievements, AchievementRecord("speed_test", speed_test_completed))
              ELSE achievements
    ELSE Append(achievements, AchievementRecord(training_type, correct_answers))

(***************************************************************************)
(* on_start_stop_click                                                     *)
(***************************************************************************)
\* the selection that cannot be rejected
NeverEmpty(sel) == FALSE

\* line 568: not selected
NothingSelected(sel) == sel = {}

\* lines 564-572: the start branch up to the empty-selection check
StartClick ==
    /\ ui.pc = "idle"
    /\ ~is_playing
    /\ IF NothingSelected(selected)
       THEN /\ status_text' = "select_symbols"
            /\ ui' = UiIdle
       ELSE /\ ui' = [UiIdle EXCEPT !.pc = "start_init", !.sel = selected]
            /\ UNCHANGED status_text
    /\ UNCHANGED <<cfgVars, modeVars, is_playing, input_event, speed_multiplier, scoreVars,
                   unitVars, challengeVars, speedTestVars, stats_text, timeAttackVars, achievements,
                   now, starts, worker, timer, histVars>>

\* lines 575-586: mode initialisation; in time_attack the timer thread is started here
StartInit ==
    /\ ui.pc = "start_init"
    /\ IF training_mode /\ training_type = "speed_test"
       THEN /\ speed_test_start_time' = now
            /\ speed_test_completed' = 0
            /\ speed_test_wpm' = 0
            /\ UNCHANGED <<speed_test_target, stats_text, timeAttackVars, timer>>
       ELSE IF training_mode /\ training_type = "time_attack"
       THEN /\ time_attack_start_time' = now
            /\ time_attack_remaining_time' = time_attack_duration
            /\ time_attack_timer_running' = TRUE
            /\ timer' = [timer EXCEPT ![Lowest(FreeTimers)] = "check"]
            /\ UNCHANGED <<time_attack_duration, speedTestVars, stats_text>>
       ELSE UNCHANGED <<speedTestVars, stats_text, timeAttackVars, timer>>
    /\ ui' = [ui EXCEPT !.pc = "start_play"]
    /\ UNCHANGED <<cfgVars, modeVars, is_playing, input_event, speed_multiplier, scoreVars,
                   unitVars, challengeVars, achievements, status_text, now, starts, worker,
                   histVars>>

\* line 589
StartPlay ==
    /\ ui.pc = "start_play"
    /\ is_playing' = TRUE
    /\ ui' = [ui EXCEPT !.pc = "start_clear"]
    /\ UNCHANGED <<cfgVars, modeVars, input_event, speed_multiplier, scoreVars, unitVars,
                   challengeVars, speedTestVars, stats_text, timeAttackVars, achievements, status_text,
                   now, starts, worker, timer, histVars>>

\* lines 590-594
StartClear ==
    /\ ui.pc = "start_clear"
    /\ input_event' = FALSE
    /\ clear_answers' = 0
    /\ status_text' = "playing"
    /\ ui' = [ui EXCEPT !.pc = "start_thread"]
    /\ UNCHANGED <<cfgVars, modeVars, is_playing, speed_multiplier, scoreVars, unitVars,
                   challengeVars, speedTestVars, stats_text, timeAttackVars, achievements, now, starts,
                   worker, timer, unit_answers>>

\* lines 597-598: a new play_symbols_loop thread, whatever the earlier ones are doing
StartThread ==
    /\ ui.pc = "start_thread"
    /\ worker' = [worker EXCEPT ![Lowest(FreeWorkers)] =
                    [WorkerIdle EXCEPT !.pc = "head", !.symbols = ui.sel]]
    /\ starts' = starts + 1
    /\ ui' = UiIdle
    /\ UNCHANGED <<cfgVars, modeVars, is_playing, input_event, speed_multiplier, scoreVars,
                   unitVars, challengeVars, speedTestVars, stats_text, timeAttackVars, achievements,
                   status_text, now, timer, histVars>>

\* line 601: the stop branch
StopClick ==
    /\ ui.pc = "idle"
    /\ is_playing
    /\ is_playing' = FALSE
    /\ ui' = [UiIdle EXCEPT !.pc = "stop_set"]
    /\ UNCHANGED <<cfgVars, modeVars, input_event, speed_multiplier, scoreVars, unitVars,
                   challengeVars, speedTestVars, stats_text, timeAttackVars, achievements, status_text,
                   now, starts, worker, timer, histVars>>

\* line 602
StopSet ==
    /\ ui.pc = "stop_set"
    /\ input_event' = TRUE
    /\ worker' = Release(worker)
    /\ ui' = [ui EXCEPT !.pc = "stop_rest"]
    /\ UNCHANGED <<cfgVars, modeVars, is_playing, speed_multiplier, scoreVars, unitVars,
                   challengeVars, speedTestVars, stats_text, timeAttackVars, achievements, status_text,
                   now, starts, timer, histVars>>

\* lines 604-644: timer flag, result line, save_test_result, cleanup_temp_files
StopRest ==
    /\ ui.pc = "stop_rest"
    /\ time_attack_timer_running' =
          IF training_type = "time_attack" THEN FALSE ELSE time_attack_timer_running
    /\ IF training_type = "speed_test" /\ speed_test_start_time # NoTime
       THEN IF now - speed_test_start_time > 0
            THEN /\ status_text' =
                       ResultLine("test_done",
                                  {Div(speed_test_completed * 60,
                                       5 * (now - speed_test_start_time)),
                                   Accuracy(correct_answers, incorrect_answers)})
                 /\ achievements' = save_test_result
            ELSE /\ status_text' = "stopped"
                 /\ UNCHANGED achievements
       ELSE IF training_type = "time_attack"
       THEN /\ status_text' =
                  ResultLine("time_up", {Accuracy(correct_answers, incorrect_answers)})
            /\ achievements' = save_test_result
       ELSE /\ status_text' = "stopped"
            /\ achievements' =
                  IF is_logged_in /\ (correct_answers > 0 \/ incorrect_answers > 0)
                  THEN save_test_result ELSE achievements
    /\ temp_audio_files' = cleanup_temp_files
    /\ ui' = UiIdle
    /\ UNCHANGED <<selected, is_logged_in, accountVars, sound, morse_codes, use_data_uri,
                   temp_files_made, modeVars, is_playing, input_event, speed_multiplier,
                   scoreVars, unitVars, challengeVars, speedTestVars, stats_text,
                   time_attack_duration, time_attack_start_time,
                   time_attack_remaining_time, now, starts, worker, timer, histVars>>

(***************************************************************************)
(* handle_correct_answer / handle_incorrect_answer                         *)
(***************************************************************************)
\* the threshold test off by one
StreakExceeded(streak) == streak > CHALLENGE_STREAK_THRESHOLD

\* the reset of the streak alone
StreakResetOnly(streak, level, speed) == [streak |-> 0, level |-> level, speed |-> speed]

\* line 847
StreakReached(streak) == streak >= CHALLENGE_STREAK_THRESHOLD

\* line 851: min(1.0 + (level - 1) * CHALLENGE_SPEED_STEP, MAX_SPEED_MULTIPLIER)
ChallengeSpeed(level) ==
    Min(MIN_SPEED_MULTIPLIER + (level - 1) * CHALLENGE_SPEED_STEP, MAX_SPEED_MULTIPLIER)

\* lines 869-872: what an incorrect answer leaves of the challenge state
ChallengeAfterIncorrect(streak, level, speed) ==
    [streak |-> 0, level |-> 1, speed |-> MIN_SPEED_MULTIPLIER]

\* a count that advances in every mode
CompletedAlways(type, completed) == completed + 1

\* lines 840-842
CompletedAfterCorrect(type, completed) ==
    IF type = "speed_test" THEN completed + 1 ELSE completed

handle_correct_answer(stats) ==
    /\ correct_answers' = correct_answers + 1
    /\ symbol_stats' =
          IF current_symbol # None THEN Tally(stats, current_symbol, "correct") ELSE stats
    /\ speed_test_completed' = CompletedAfterCorrect(training_type, speed_test_completed)
    /\ IF training_type = "challenge"
       THEN IF StreakReached(challenge_correct_streak + 1)
            THEN /\ challenge_level' = challenge_level + 1
                 /\ challenge_correct_streak' = 0
                 /\ speed_multiplier' = ChallengeSpeed(challenge_level + 1)
            ELSE /\ challenge_correct_streak' = challenge_correct_streak + 1
                 /\ UNCHANGED <<challenge_level, speed_multiplier>>
       ELSE UNCHANGED <<challengeVars, speed_multiplier>>
    /\ speed_test_wpm' =
          update_stats_display(training_type, speed_test_start_time,
                               speed_test_completed', speed_test_wpm)
    /\ stats_text' =
          stats_line(training_type, speed_test_start_time, time_attack_timer_running,
                     time_attack_remaining_time, correct_answers', incorrect_answers)
    /\ UNCHANGED incorrect_answers

handle_incorrect_answer(stats) ==
    /\ incorrect_answers' = incorrect_answers + 1
    /\ symbol_stats' =
          IF current_symbol # None THEN Tally(stats, current_symbol, "incorrect") ELSE stats
    /\ IF training_type = "challenge"
       THEN LET after == ChallengeAfterIncorrect(challenge_correct_streak, challenge_level,
                                                 speed_multiplier)
            IN  /\ challenge_correct_streak' = after.streak
                /\ challenge_level' = after.level
                /\ speed_multiplier' = after.speed
       ELSE UNCHANGED <<challengeVars, speed_multiplier>>
    /\ stats_text' = "stats"
    /\ UNCHANGED <<correct_answers, speed_test_completed, speed_test_wpm>>

(***************************************************************************)
(* on_keyboard_event                                                       *)
(***************************************************************************)
\* the answer guard left out
GuardMissing == FALSE

\* lines 888-890 and 999-1001: the answer guard
AlreadyProcessed == input_event

\* line 901: e.key.upper() if e.key else None
PressedKey(k) == IF k # NoKey THEN UpperChar(k) ELSE None

\* line 903: len(pressed_key) != 1
SingleChar(k) == k \in Chars

\* the direct match alone, without the layout table
DirectMatchOnly(pressed_key, symbol) == pressed_key = symbol

\* lines 914-922: direct match, or match through key_mapping
IsCorrectKey(pressed_key, symbol) ==
    \/ pressed_key = symbol
    \/ /\ key_mapping(pressed_key) # None
       /\ key_mapping(pressed_key) = symbol

\* a handler that never sees the modifier
ShiftUnseen(shift) == FALSE

\* line 885: e.shift
ShiftHeld(shift) == shift

\* lines 885-904: the guards
on_keyboard_event(k, shift) ==
    /\ ui.pc = "idle"
    /\ IF ShiftHeld(shift) THEN ui' = [UiIdle EXCEPT !.shift = TRUE]
       ELSE IF ~training_mode THEN ui' = UiIdle
       ELSE IF AlreadyProcessed THEN ui' = [UiIdle EXCEPT !.ignored = TRUE]
       ELSE IF training_type = "words" THEN ui' = UiIdle
       ELSE IF current_symbol = None THEN ui' = UiIdle
       ELSE IF PressedKey(k) = None \/ ~SingleChar(PressedKey(k)) THEN ui' = UiIdle
       ELSE ui' = [UiIdle EXCEPT !.pc = "kb_set", !.key = PressedKey(k)]
    /\ UNCHANGED <<cfgVars, modeVars, is_playing, input_event, speed_multiplier, scoreVars,
                   unitVars, challengeVars, speedTestVars, stats_text, timeAttackVars, achievements,
                   status_text, now, starts, worker, timer, histVars>>

\* line 907
KbSet ==
    /\ ui.pc = "kb_set"
    /\ input_event' = TRUE
    /\ worker' = Release(worker)
    /\ ui' = [ui EXCEPT !.pc = "kb_score"]
    /\ UNCHANGED <<cfgVars, modeVars, is_playing, speed_multiplier, scoreVars, unitVars,
                   challengeVars, speedTestVars, stats_text, timeAttackVars, achievements, status_text,
                   now, starts, timer, histVars>>

\* lines 910-925: the comparison and the handle_* call it selects
KbScore ==
    /\ ui.pc = "kb_score"
    /\ LET stats == EnsureEntry(symbol_stats, current_symbol)
       IN  IF IsCorrectKey(ui.key, current_symbol)
           THEN handle_correct_answer(stats)
           ELSE handle_incorrect_answer(stats)
    /\ unit_answers' = Bump(unit_answers)
    /\ clear_answers' = Bump(clear_answers)
    /\ ui' = [ui EXCEPT !.pc = "idle"]
    /\ UNCHANGED <<cfgVars, modeVars, is_playing, input_event, unitVars, speed_test_target,
                   speed_test_start_time, timeAttackVars, achievements, status_text, now,
                   starts, worker, timer>>

(***************************************************************************)
(* on_word_submit / check_word_answer                                      *)
(***************************************************************************)
\* lines 996-1005: the guards; the field submits only while it is shown
on_word_submit(text) ==
    /\ ui.pc = "idle"
    /\ word_input_visible
    /\ IF ~training_mode \/ current_word = NoWord THEN ui' = UiIdle
       ELSE IF AlreadyProcessed THEN ui' = [UiIdle EXCEPT !.ignored = TRUE]
       ELSE IF text = << >> THEN ui' = UiIdle
       ELSE ui' = [UiIdle EXCEPT !.pc = "ws_set", !.text = text]
    /\ UNCHANGED <<cfgVars, modeVars, is_playing, input_event, speed_multiplier, scoreVars,
                   unitVars, challengeVars, speedTestVars, stats_text, timeAttackVars, achievements,
                   status_text, now, starts, worker, timer, histVars>>

\* line 1008
WsSet ==
    /\ ui.pc = "ws_set"
    /\ input_event' = TRUE
    /\ worker' = Release(worker)
    /\ ui' = [ui EXCEPT !.pc = "ws_check"]
    /\ UNCHANGED <<cfgVars, modeVars, is_playing, speed_multiplier, scoreVars, unitVars,
                   challengeVars, speedTestVars, stats_text, timeAttackVars, achievements, status_text,
                   now, starts, timer, histVars>>

\* line 820
WordMatches(input_text, word) == input_text = Upper(word)

\* check_word_answer, lines 809-830: "none" (nothing scored), "correct" or "incorrect"
check_word_answer(input_text) ==
    IF current_word = NoWord \/ input_text = << >> THEN "none"
    ELSE IF NormalizeInput(input_text) = << >> THEN "none"
    ELSE IF WordMatches(NormalizeInput(input_text), current_word) THEN "correct"
    ELSE "incorrect"

\* lines 1011-1015
WsCheck ==
    /\ ui.pc = "ws_check"
    /\ LET verdict == check_word_answer(ui.text)
       IN  /\ correct_answers' = IF verdict = "correct" THEN correct_answers + 1
                                 ELSE correct_answers
           /\ incorrect_answers' = IF verdict = "incorrect" THEN incorrect_answers + 1
                                   ELSE incorrect_answers
           /\ speed_test_wpm' =
                 IF verdict = "correct"
                 THEN update_stats_display(training_type, speed_test_start_time,
                                           speed_test_completed, speed_test_wpm)
                 ELSE speed_test_wpm
           /\ stats_text' =
                 IF verdict = "correct"
                 THEN stats_line(training_type, speed_test_start_time,
                                 time_attack_timer_running, time_attack_remaining_time,
                                 correct_answers', incorrect_answers)
                 ELSE IF verdict = "incorrect" THEN "words" ELSE stats_text
           /\ unit_answers' = IF verdict = "none" THEN unit_answers ELSE Bump(unit_answers)
           /\ clear_answers' = IF verdict = "none" THEN clear_answers ELSE Bump(clear_answers)
    /\ ui' = [ui EXCEPT !.pc = "idle"]
    /\ UNCHANGED <<cfgVars, modeVars, is_playing, input_event, speed_multiplier,
                   symbol_stats, unitVars, challengeVars, speed_test_target,
                   speed_test_completed, speed_test_start_time, timeAttackVars, achievements,
                   status_text, now, starts, worker, timer>>

(***************************************************************************)
(* toggle_training_mode, on_training_type_change, sliders and fields       *)
(***************************************************************************)
\* tallies that outlive the checkbox
StatsKept(stats) == stats

\* line 935: self.symbol_stats = {}
StatsAfterToggle(stats) == EmptyStats

\* a speed that outlives the change of type
SpeedKept(value, speed) == speed

\* lines 964-966: the speed is reset for challenge
SpeedAfterTypeChange(value, speed) ==
    IF value = "challenge" THEN MIN_SPEED_MULTIPLIER ELSE speed

\* lines 927-953; the checkbox reports a change of its value
toggle_training_mode(value) ==
    /\ ui.pc = "idle"
    /\ value # training_mode
    /\ training_mode' = value
    /\ IF value
       THEN /\ correct_answers' = 0
            /\ incorrect_answers' = 0
            /\ challenge_correct_streak' = 0
            /\ challenge_level' = 1
            /\ symbol_stats' = StatsAfterToggle(symbol_stats)
            /\ word_input_visible' =
                  IF training_type = "words" THEN TRUE ELSE word_input_visible
            /\ speed_test_wpm' =
                  update_stats_display(training_type, speed_test_start_time,
                                       speed_test_completed, speed_test_wpm)
            /\ stats_text' =
                  stats_line(training_type, speed_test_start_time, time_attack_timer_running,
                             time_attack_remaining_time, 0, 0)
       ELSE /\ word_input_visible' = FALSE
            /\ UNCHANGED <<scoreVars, challengeVars, speed_test_wpm, stats_text>>
    /\ ui' = UiIdle
    /\ UNCHANGED <<cfgVars, training_type, speed_slider_disabled, is_playing, input_event,
                   speed_multiplier, unitVars, speed_test_target, speed_test_completed,
                   speed_test_start_time, timeAttackVars, achievements, status_text, now,
                   starts, worker, timer, histVars>>

\* lines 955-992; the radio group reports a change of its value, and it is shown only
\* while training mode is on (lines 940-941, 951-952, 2305)
on_training_type_change(value) ==
    /\ ui.pc = "idle"
    /\ training_mode
    /\ value # training_type
    /\ training_type' = value
    /\ IF training_mode
       THEN /\ correct_answers' = 0
            /\ incorrect_answers' = 0
            /\ challenge_correct_streak' = 0
            /\ challenge_level' = 1
            /\ speed_multiplier' = SpeedAfterTypeChange(value, speed_multiplier)
            /\ speed_slider_disabled' = (value = "challenge")
            /\ IF value = "speed_test"
               THEN /\ speed_test_completed' = 0
                    /\ speed_test_start_time' = NoTime
                    /\ speed_test_wpm' = 0
                    /\ UNCHANGED <<time_attack_remaining_time, time_attack_start_time,
                                   time_attack_timer_running>>
               ELSE IF value = "time_attack"
               THEN /\ time_attack_remaining_time' = time_attack_duration
                    /\ time_attack_start_time' = NoTime
                    /\ time_attack_timer_running' = FALSE
                    /\ UNCHANGED <<speed_test_completed, speed_test_start_time,
                                   speed_test_wpm>>
               ELSE UNCHANGED <<speed_test_completed, speed_test_start_time,
                                speed_test_wpm, time_attack_remaining_time,
                                time_attack_start_time, time_attack_timer_running>>
            /\ word_input_visible' = (value = "words")
            /\ stats_text' =
                  stats_line(value, speed_test_start_time', time_attack_timer_running',
                             time_attack_remaining_time', 0, 0)
       ELSE UNCHANGED <<correct_answers, incorrect_answers, challengeVars, speed_multiplier,
                        speed_slider_disabled, speed_test_completed, speed_test_start_time,
                        speed_test_wpm, stats_text, time_attack_remaining_time,
                        time_attack_start_time, time_attack_timer_running,
                        word_input_visible>>
    /\ ui' = UiIdle
    /\ UNCHANGED <<cfgVars, training_mode, is_playing, input_event, symbol_stats, unitVars,
                   speed_test_target, time_attack_duration, achievements, status_text, now,
                   starts, worker, timer, histVars>>

\* lines 1043-1045; a disabled slider reports nothing
on_speed_change(value) ==
    /\ ui.pc = "idle"
    /\ ~speed_slider_disabled
    /\ value # speed_multiplier
    /\ speed_multiplier' = value
    /\ ui' = UiIdle
    /\ UNCHANGED <<cfgVars, modeVars, is_playing, input_event, scoreVars, unitVars,
                   challengeVars, speedTestVars, stats_text, timeAttackVars, achievements, status_text,
                   now, starts, worker, timer, histVars>>

\* line 2257: the on_change of the symbol-count field
on_speed_test_count_change(value) ==
    /\ ui.pc = "idle"
    /\ value # speed_test_target
    /\ speed_test_target' = value
    /\ ui' = UiIdle
    /\ UNCHANGED <<cfgVars, modeVars, is_playing, input_event, speed_multiplier, scoreVars,
                   unitVars, challengeVars, speed_test_completed, speed_test_start_time,
                   speed_test_wpm, stats_text, timeAttackVars, achievements, status_text, now, starts,
                   worker, timer, histVars>>

\* line 2275: the on_change of the duration dropdown
on_time_attack_duration_change(value) ==
    /\ ui.pc = "idle"
    /\ value # time_attack_duration
    /\ time_attack_duration' = value
    /\ ui' = UiIdle
    /\ UNCHANGED <<cfgVars, modeVars, is_playing, input_event, speed_multiplier, scoreVars,
                   unitVars, challengeVars, speedTestVars, stats_text, time_attack_start_time,
                   time_attack_remaining_time, time_attack_timer_running, achievements,
                   status_text, now, starts, worker, timer, histVars>>

\* lines 1223-1242: a click on a symbol ticks or unticks it, playing or not
toggle_symbol(symbol) ==
    /\ ui.pc = "idle"
    /\ selected' = IF symbol \in selected THEN selected \ {symbol}
                   ELSE selected \cup {symbol}
    /\ ui' = UiIdle
    /\ UNCHANGED <<is_logged_in, accountVars, sound, assetVars, modeVars, is_playing, input_event,
                   speed_multiplier, scoreVars, unitVars, challengeVars, speedTestVars, stats_text,
                   timeAttackVars, achievements, status_text, now, starts, worker, timer,
                   histVars>>

\* the clock advances
Tick ==
    /\ now < MaxTime
    /\ now' = now + 30
    /\ UNCHANGED <<cfgVars, modeVars, is_playing, input_event, speed_multiplier, scoreVars,
                   unitVars, challengeVars, speedTestVars, stats_text, timeAttackVars, achievements,
                   status_text, starts, ui, worker, timer, histVars>>

(***************************************************************************)
(* get_weak_symbols                                                        *)
(***************************************************************************)
Total(st) == st.correct + st.incorrect

\* error rate of a above that of b: incorrect / total compared without division
HigherRate(a, b) ==
    symbol_stats[a].incorrect * Total(symbol_stats[b])
        > symbol_stats[b].incorrect * Total(symbol_stats[a])

\* lines 463-468: error_rates, the symbols that have a rate
error_rates == {s \in DOMAIN symbol_stats : Total(symbol_stats[s]) > 0}

\* a ranking that puts the lower rate first
LowestFirst(a, b) ==
    \/ HigherRate(b, a)
    \/ ~HigherRate(a, b) /\ symbol_stats[a].order < symbol_stats[b].order

\* line 471, sorted(..., reverse=True): a comes before b in the result; the sort is stable,
\* so equal rates keep the order of the dict
SortedBefore(a, b) ==
    \/ HigherRate(a, b)
    \/ ~HigherRate(b, a) /\ symbol_stats[a].order < symbol_stats[b].order

\* line 471: sorted_symbols, as the sequence of its symbols
sorted_symbols ==
    [n \in 1..Cardinality(error_rates) |->
        CHOOSE s \in error_rates :
            Cardinality({t \in error_rates \ {s} : SortedBefore(t, s)}) = n - 1]

\* line 477: if selected
FilterBySelection(sel) == sel # {}

\* lines 474-478: the first WEAK_SYMBOLS_LIMIT of them, then those that are selected
weak_symbols ==
    LET top == SubSeq(sorted_symbols, 1, Min(Len(sorted_symbols), WEAK_SYMBOLS_LIMIT))
        IsSelected(s) == s \in selected
    IN  IF FilterBySelection(selected) THEN SelectSeq(top, IsSelected) ELSE top

\* lines 455-481; random.choice only uses which symbols the list holds
get_weak_symbols ==
    IF DOMAIN symbol_stats = {} THEN selected
    ELSE IF weak_symbols # << >> THEN {weak_symbols[n] : n \in DOMAIN weak_symbols}
    ELSE selected

\* lines 694-701: the symbols the next one is drawn from
available_symbols(w) ==
    IF training_mode /\ training_type = "weak_spots"
    THEN IF get_weak_symbols # {} THEN get_weak_symbols ELSE worker[w].symbols
    ELSE worker[w].symbols

(***************************************************************************)
(* calculate_symbol_duration and the sample layout of generate_morse_audio *)
(***************************************************************************)
Scale(d, n) == Seconds(d.num * n, d.den)

Add(a, b) ==
    IF a.den = b.den THEN Seconds(a.num + b.num, a.den)
    ELSE Seconds(a.num * b.den + b.num * a.den, a.den * b.den)

\* a dot that gets longer as the speed goes up
DitTimesSpeed(speed) == Seconds(BASE_DIT_DURATION * speed, 1000)

\* lines 1072, 1106: BASE_DIT_DURATION / self.speed_multiplier (speed in tenths)
dit_duration(speed) == Seconds(BASE_DIT_DURATION * 10, 100 * speed)

\* a pause after every element
GapAlways(i, morse_code) == TRUE

\* lines 1081, 1139: i < len(morse_code) - 1, for i counted from 1
GapFollows(i, morse_code) == i < Len(morse_code)

RECURSIVE DurationLoop(_, _, _, _)
\* lines 1075-1083
DurationLoop(morse_code, i, dit, total_duration) ==
    IF i > Len(morse_code) THEN total_duration
    ELSE LET element ==
                 IF morse_code[i] = "." THEN Add(total_duration, dit)
                 ELSE IF morse_code[i] = "-" THEN Add(total_duration, Scale(dit, 3))
                 ELSE total_duration
             pause == IF GapFollows(i, morse_code) THEN Add(element, dit) ELSE element
         IN  DurationLoop(morse_code, i + 1, dit, pause)

\* lines 1066-1085
calculate_symbol_duration(morse_code, speed) ==
    IF morse_code = << >> THEN Seconds(1, 2)
    ELSE DurationLoop(morse_code, 1, dit_duration(speed), Seconds(0, 1))

\* int(AUDIO_SAMPLE_RATE * duration)
SampleCount(duration) == (AUDIO_SAMPLE_RATE * duration.num) \div duration.den

RECURSIVE AudioLoop(_, _, _, _)
\* lines 1116-1141: the runs of samples appended to audio_data, a tone per element and
\* a silence between elements
AudioLoop(morse_code, i, dit, data) ==
    IF i > Len(morse_code) THEN data
    ELSE IF morse_code[i] \notin {".", "-"} THEN AudioLoop(morse_code, i + 1, dit, data)
    ELSE LET duration == IF morse_code[i] = "." THEN dit ELSE Scale(dit, 3)
             tone == Append(data, [tone |-> TRUE, samples |-> SampleCount(duration)])
             silence ==
                 IF GapFollows(i, morse_code)
                 THEN Append(tone, [tone |-> FALSE, samples |-> SampleCount(dit)])
                 ELSE tone
         IN  AudioLoop(morse_code, i + 1, dit, silence)

\* lines 1106-1141; no pattern, no audio
audio_data(morse_code, speed) ==
    IF morse_code = << >> THEN << >>
    ELSE AudioLoop(morse_code, 1, dit_duration(speed), << >>)

\* lines 707-712: the worker has the symbol synthesised and its duration calculated, at
\* the speed of the moment
Synthesize ==
    /\ sound' =
          [morse_code |-> sound.morse_code,
           runs |-> Min(sound.runs + 1, HistCap),
           speed |-> speed_multiplier,
           duration |-> calculate_symbol_duration(sound.morse_code, speed_multiplier),
           audio_data |-> audio_data(sound.morse_code, speed_multiplier),
           speed_before |-> sound.speed,
           duration_before |-> sound.duration]
    /\ UNCHANGED <<selected, is_logged_in, accountVars, assetVars, modeVars, is_playing, input_event,
                   speed_multiplier, scoreVars, unitVars, challengeVars, speedTestVars,
                   stats_text, timeAttackVars, achievements, status_text, now, starts, ui,
                   worker, timer, histVars>>

\* what ends a thread: an exception nobody catches
Exceptions == {"OSError", "KeyError"}

\* a lookup morse_codes[symbol] in place of morse_codes.get(symbol, "")
GenerateOrKeyError(symbol) ==
    IF symbol \notin morse_codes THEN {"KeyError"}
    ELSE IF use_data_uri THEN {"data_uri"}
    ELSE {"temp_file_path", "OSError"}

\* generate_morse_audio, what a call returns or raises: None for a symbol without a
\* pattern (1109-1111), a data URI built in memory (1147-1157), or the path of the
\* temporary file written (1160-1177), unless writing it fails
generate_morse_audio(symbol) ==
    IF symbol \notin morse_codes THEN {"None"}
    ELSE IF use_data_uri THEN {"data_uri"}
    ELSE {"temp_file_path", "OSError"}

\* the list with its newest file dropped when it is over the limit
DropNewest(files, path) ==
    IF Len(files) + 1 > TEMP_FILES_LIMIT THEN files ELSE Append(files, path)

\* lines 1166-1175, under temp_files_lock: append, then pop(0) when over the limit
TrackTempFile(files, path) ==
    LET tracked == Append(files, path)
    IN  IF Len(tracked) > TEMP_FILES_LIMIT THEN Tail(tracked) ELSE tracked

\* lines 1160-1177: what a call that ends as audio_file does to the files; a file whose
\* write failed has been created and is not tracked
StoreAudio(audio_file) ==
    /\ temp_files_made' =
          IF audio_file \in {"temp_file_path", "OSError"} THEN temp_files_made + 1
          ELSE temp_files_made
    /\ temp_audio_files' =
          IF audio_file = "temp_file_path"
          THEN TrackTempFile(temp_audio_files, temp_files_made + 1)
          ELSE temp_audio_files

\* where the worker goes with the result: on past the playback for None, out of the
\* thread with an exception
AfterAudio(audio_file, played, skipped) ==
    IF audio_file \in Exceptions THEN "raised"
    ELSE IF audio_file = "None" THEN skipped
    ELSE played

(***************************************************************************)
(* play_symbols_loop (the local symbol_count only selects the length of a  *)
(* sleep and is left out)                                                  *)
(***************************************************************************)
Goto(w, label) == worker' = [worker EXCEPT ![w].pc = label]

\* lines 659-684: loop test, the two automatic stops, the choice of branch
LoopHead(w) ==
    /\ worker[w].pc = "head"
    /\ IF ~is_playing
       THEN /\ Goto(w, "done")
            /\ UNCHANGED <<is_playing, time_attack_timer_running, status_text>>
       ELSE IF /\ training_mode
               /\ training_type = "speed_test"
               /\ speed_test_completed >= speed_test_target
       THEN /\ is_playing' = FALSE
            /\ status_text' =
                  IF speed_test_start_time # NoTime /\ now - speed_test_start_time > 0
                  THEN ResultLine("test_done",
                                  {Div(speed_test_completed * 60,
                                       5 * (now - speed_test_start_time)),
                                   Accuracy(correct_answers, incorrect_answers)})
                  ELSE status_text
            /\ Goto(w, "done")
            /\ UNCHANGED time_attack_timer_running
       ELSE IF /\ training_mode
               /\ training_type = "time_attack"
               /\ time_attack_remaining_time <= 0
       THEN /\ is_playing' = FALSE
            /\ time_attack_timer_running' = FALSE
            /\ status_text' =
                  ResultLine("time_up", {Accuracy(correct_answers, incorrect_answers)})
            /\ Goto(w, "done")
       ELSE /\ Goto(w, IF training_mode /\ training_type = "words"
                       THEN "w_sel" ELSE "s_sel")
            /\ UNCHANGED <<is_playing, time_attack_timer_running, status_text>>
    /\ UNCHANGED <<cfgVars, modeVars, input_event, speed_multiplier, scoreVars, unitVars,
                   challengeVars, speedTestVars, stats_text, time_attack_duration,
                   time_attack_start_time, time_attack_remaining_time, achievements, now,
                   starts, ui, timer, histVars>>

\* lines 686-687
SelectWord(w) ==
    /\ worker[w].pc = "w_sel"
    /\ \E word \in training_words :
          /\ current_word' = word
          /\ worker' = [worker EXCEPT ![w].pc = "w_none", ![w].word = word]
    /\ unit_answers' = 0
    /\ UNCHANGED <<cfgVars, modeVars, is_playing, input_event, speed_multiplier, scoreVars,
                   current_symbol, challengeVars, speedTestVars, stats_text, timeAttackVars,
                   achievements, status_text, now, starts, ui, timer, clear_answers>>

\* line 688, then play_word is entered
ClearSymbol(w) ==
    /\ worker[w].pc = "w_none"
    /\ current_symbol' = None
    /\ worker' = [worker EXCEPT ![w].pc = "pw_loop", ![w].i = 1]
    /\ UNCHANGED <<cfgVars, modeVars, is_playing, input_event, speed_multiplier, scoreVars,
                   current_word, challengeVars, speedTestVars, stats_text, timeAttackVars, achievements,
                   status_text, now, starts, ui, timer, histVars>>

\* play_word, lines 770-793: one letter of the word
PlayLetter(w) ==
    /\ worker[w].pc = "pw_loop"
    /\ LET word == worker[w].word
           i == worker[w].i
       IN  IF ~is_playing
           THEN /\ Goto(w, "pw_after")
                /\ UNCHANGED <<temp_audio_files, temp_files_made>>
           ELSE \E audio_file \in generate_morse_audio(word[i]) :
                   /\ StoreAudio(audio_file)
                   /\ IF audio_file \in Exceptions
                      THEN Goto(w, "raised")
                      ELSE IF audio_file # "None" /\ i < Len(word)
                      THEN Goto(w, "pw_sleep")
                      ELSE IF i < Len(word)
                      THEN worker' = [worker EXCEPT ![w].i = i + 1]
                      ELSE Goto(w, "pw_after")
    /\ UNCHANGED <<selected, is_logged_in, accountVars, sound, morse_codes, use_data_uri, modeVars,
                   is_playing, input_event, speed_multiplier, scoreVars, unitVars,
                   challengeVars, speedTestVars, stats_text, timeAttackVars, achievements,
                   status_text, now, starts, ui, timer, histVars>>

\* line 794
PlayLetterSleep(w) ==
    /\ worker[w].pc = "pw_sleep"
    /\ worker' = [worker EXCEPT ![w].pc = "pw_loop", ![w].i = @ + 1]
    /\ UNCHANGED <<cfgVars, modeVars, is_playing, input_event, speed_multiplier, scoreVars,
                   unitVars, challengeVars, speedTestVars, stats_text, timeAttackVars, achievements,
                   status_text, now, starts, ui, timer, histVars>>

\* line 797
WordPlayed(w) ==
    /\ worker[w].pc = "pw_after"
    /\ Goto(w, IF is_playing THEN "pw_clear" ELSE "head")
    /\ UNCHANGED <<cfgVars, modeVars, is_playing, input_event, speed_multiplier, scoreVars,
                   unitVars, challengeVars, speedTestVars, stats_text, timeAttackVars, achievements,
                   status_text, now, starts, ui, timer, histVars>>

\* lines 798-803
WordClear(w) ==
    /\ worker[w].pc = "pw_clear"
    /\ input_event' = FALSE
    /\ clear_answers' = 0
    /\ speed_test_wpm' =
          update_stats_display(training_type, speed_test_start_time, speed_test_completed,
                               speed_test_wpm)
    /\ stats_text' =
          stats_line(training_type, speed_test_start_time, time_attack_timer_running,
                     time_attack_remaining_time, correct_answers, incorrect_answers)
    /\ Goto(w, "pw_chk")
    /\ UNCHANGED <<cfgVars, modeVars, is_playing, speed_multiplier, scoreVars, unitVars,
                   challengeVars, speed_test_target, speed_test_completed,
                   speed_test_start_time, timeAttackVars, achievements, status_text, now,
                   starts, ui, timer, unit_answers>>

\* the wait entered without the second test of is_playing
WordCheckUnguarded(w) ==
    /\ worker[w].pc = "pw_chk"
    /\ Goto(w, "pw_wait")
    /\ UNCHANGED <<cfgVars, modeVars, is_playing, input_event, speed_multiplier, scoreVars,
                   unitVars, challengeVars, speedTestVars, stats_text, timeAttackVars,
                   achievements, status_text, now, starts, ui, timer, histVars>>

\* line 806
WordCheck(w) ==
    /\ worker[w].pc = "pw_chk"
    /\ Goto(w, IF is_playing THEN "pw_wait" ELSE "head")
    /\ UNCHANGED <<cfgVars, modeVars, is_playing, input_event, speed_multiplier, scoreVars,
                   unitVars, challengeVars, speedTestVars, stats_text, timeAttackVars, achievements,
                   status_text, now, starts, ui, timer, histVars>>

\* line 807: wait() returns at once if the flag is set, and blocks otherwise
WordWait(w) ==
    /\ worker[w].pc = "pw_wait"
    /\ Goto(w, IF input_event THEN "pw_ret" ELSE "pw_blocked")
    /\ UNCHANGED <<cfgVars, modeVars, is_playing, input_event, speed_multiplier, scoreVars,
                   unitVars, challengeVars, speedTestVars, stats_text, timeAttackVars, achievements,
                   status_text, now, starts, ui, timer, histVars>>

\* the return from wait() in play_word, then line 691
WordWaitReturn(w) ==
    /\ worker[w].pc = "pw_ret"
    /\ Goto(w, "head")
    /\ UNCHANGED <<cfgVars, modeVars, is_playing, input_event, speed_multiplier, scoreVars,
                   unitVars, challengeVars, speedTestVars, stats_text, timeAttackVars, achievements,
                   status_text, now, starts, ui, timer, histVars>>

\* lines 694-703
SelectSymbol(w) ==
    /\ worker[w].pc = "s_sel"
    /\ \E symbol \in available_symbols(w) :
          /\ current_symbol' = symbol
          /\ worker' = [worker EXCEPT ![w].pc = "s_word", ![w].symbol = symbol]
    /\ unit_answers' = 0
    /\ UNCHANGED <<cfgVars, modeVars, is_playing, input_event, speed_multiplier, scoreVars,
                   current_word, challengeVars, speedTestVars, stats_text, timeAttackVars, achievements,
                   status_text, now, starts, ui, timer, clear_answers>>

\* lines 704-705
ClearWord(w) ==
    /\ worker[w].pc = "s_word"
    /\ current_word' = NoWord
    /\ Goto(w, "s_gen")
    /\ UNCHANGED <<cfgVars, modeVars, is_playing, input_event, speed_multiplier, scoreVars,
                   current_symbol, challengeVars, speedTestVars, stats_text, timeAttackVars,
                   achievements, status_text, now, starts, ui, timer, histVars>>

\* lines 708-712
Generate(w) ==
    /\ worker[w].pc = "s_gen"
    /\ \E audio_file \in generate_morse_audio(worker[w].symbol) :
          /\ StoreAudio(audio_file)
          /\ Goto(w, AfterAudio(audio_file, "s_clear", "s_tail"))
    /\ UNCHANGED <<selected, is_logged_in, accountVars, sound, morse_codes, use_data_uri, modeVars,
                   is_playing, input_event, speed_multiplier, scoreVars, unitVars,
                   challengeVars, speedTestVars, stats_text, timeAttackVars, achievements,
                   status_text, now, starts, ui, timer, histVars>>

\* lines 715-718
ClearBeforeInput(w) ==
    /\ worker[w].pc = "s_clear"
    /\ IF training_mode
       THEN /\ input_event' = FALSE
            /\ clear_answers' = 0
            /\ speed_test_wpm' =
                  update_stats_display(training_type, speed_test_start_time,
                                       speed_test_completed, speed_test_wpm)
            /\ stats_text' =
                  stats_line(training_type, speed_test_start_time,
                             time_attack_timer_running, time_attack_remaining_time,
                             correct_answers, incorrect_answers)
       ELSE UNCHANGED <<input_event, clear_answers, speed_test_wpm, stats_text>>
    /\ Goto(w, "s_sleep")
    /\ UNCHANGED <<cfgVars, modeVars, is_playing, speed_multiplier, scoreVars, unitVars,
                   challengeVars, speed_test_target, speed_test_completed,
                   speed_test_start_time, timeAttackVars, achievements, status_text, now,
                   starts, ui, timer, unit_answers>>

\* lines 720-745: the audio control is surfaced, then the pre-roll sleep
Surface(w) ==
    /\ worker[w].pc = "s_sleep"
    /\ Goto(w, "s_chk")
    /\ UNCHANGED <<cfgVars, modeVars, is_playing, input_event, speed_multiplier, scoreVars,
                   unitVars, challengeVars, speedTestVars, stats_text, timeAttackVars, achievements,
                   status_text, now, starts, ui, timer, histVars>>

\* lines 748-750 and 753
CheckBeforeWait(w) ==
    /\ worker[w].pc = "s_chk"
    /\ Goto(w, IF training_mode THEN (IF is_playing THEN "s_wait" ELSE "s_tail")
               ELSE "s_pause")
    /\ UNCHANGED <<cfgVars, modeVars, is_playing, input_event, speed_multiplier, scoreVars,
                   unitVars, challengeVars, speedTestVars, stats_text, timeAttackVars, achievements,
                   status_text, now, starts, ui, timer, histVars>>

\* line 751: wait() returns at once if the flag is set, and blocks otherwise
Wait(w) ==
    /\ worker[w].pc = "s_wait"
    /\ Goto(w, IF input_event THEN "s_ret" ELSE "s_blocked")
    /\ UNCHANGED <<cfgVars, modeVars, is_playing, input_event, speed_multiplier, scoreVars,
                   unitVars, challengeVars, speedTestVars, stats_text, timeAttackVars, achievements,
                   status_text, now, starts, ui, timer, histVars>>

\* the return from wait() in play_symbols_loop
WaitReturn(w) ==
    /\ worker[w].pc = "s_ret"
    /\ Goto(w, "s_tail")
    /\ UNCHANGED <<cfgVars, modeVars, is_playing, input_event, speed_multiplier, scoreVars,
                   unitVars, challengeVars, speedTestVars, stats_text, timeAttackVars, achievements,
                   status_text, now, starts, ui, timer, histVars>>

\* lines 757-758: training mode off
Pause(w) ==
    /\ worker[w].pc = "s_pause"
    /\ Goto(w, "s_tail")
    /\ UNCHANGED <<cfgVars, modeVars, is_playing, input_event, speed_multiplier, scoreVars,
                   unitVars, challengeVars, speedTestVars, stats_text, timeAttackVars, achievements,
                   status_text, now, starts, ui, timer, histVars>>

\* lines 761-762
LoopTail(w) ==
    /\ worker[w].pc = "s_tail"
    /\ Goto(w, IF is_playing THEN "head" ELSE "done")
    /\ UNCHANGED <<cfgVars, modeVars, is_playing, input_event, speed_multiplier, scoreVars,
                   unitVars, challengeVars, speedTestVars, stats_text, timeAttackVars, achievements,
                   status_text, now, starts, ui, timer, histVars>>

(***************************************************************************)
(* time_attack_timer                                                       *)
(***************************************************************************)
\* line 489
TimerCheck(t) ==
    /\ timer[t] = "check"
    /\ timer' = [timer EXCEPT ![t] =
                    IF time_attack_timer_running /\ is_playing THEN "body" ELSE "done"]
    /\ UNCHANGED <<cfgVars, modeVars, is_playing, input_event, speed_multiplier, scoreVars,
                   unitVars, challengeVars, speedTestVars, stats_text, timeAttackVars, achievements,
                   status_text, now, starts, ui, worker, histVars>>

\* lines 490-499
TimerBody(t) ==
    /\ timer[t] = "body"
    /\ IF time_attack_start_time # NoTime
       THEN /\ time_attack_remaining_time' =
                  Max(0, time_attack_duration - (now - time_attack_start_time))
            /\ timer' = [timer EXCEPT ![t] =
                            IF time_attack_remaining_time' <= 0 THEN "expire" ELSE "sleep"]
            \* line 495: the display is refreshed when the remaining time is within a
            \* tenth of a second below a whole second, so never at 0
            /\ \E refresh \in IF time_attack_remaining_time' > 0 THEN BOOLEAN ELSE {FALSE} :
                  IF refresh
                  THEN /\ speed_test_wpm' =
                             update_stats_display(training_type, speed_test_start_time,
                                                  speed_test_completed, speed_test_wpm)
                       /\ stats_text' =
                             stats_line(training_type, speed_test_start_time,
                                        time_attack_timer_running,
                                        time_attack_remaining_time', correct_answers,
                                        incorrect_answers)
                  ELSE UNCHANGED <<speed_test_wpm, stats_text>>
       ELSE /\ timer' = [timer EXCEPT ![t] = "sleep"]
            /\ UNCHANGED <<time_attack_remaining_time, speed_test_wpm, stats_text>>
    /\ UNCHANGED <<cfgVars, modeVars, is_playing, input_event, speed_multiplier, scoreVars,
                   unitVars, challengeVars, speed_test_target, speed_test_completed,
                   speed_test_start_time, time_attack_duration, time_attack_start_time,
                   time_attack_timer_running, achievements, status_text, now, starts, ui,
                   worker, histVars>>

\* lines 501-502
TimerExpire(t) ==
    /\ timer[t] = "expire"
    /\ is_playing' = FALSE
    /\ time_attack_timer_running' = FALSE
    /\ timer' = [timer EXCEPT ![t] = "expire_set"]
    /\ UNCHANGED <<cfgVars, modeVars, input_event, speed_multiplier, scoreVars, unitVars,
                   challengeVars, speedTestVars, stats_text, time_attack_duration,
                   time_attack_start_time, time_attack_remaining_time, achievements,
                   status_text, now, starts, ui, worker, histVars>>

\* lines 503-506
TimerExpireSet(t) ==
    /\ timer[t] = "expire_set"
    /\ input_event' = TRUE
    /\ worker' = Release(worker)
    /\ speed_test_wpm' =
          update_stats_display(training_type, speed_test_start_time, speed_test_completed,
                               speed_test_wpm)
    /\ stats_text' =
          stats_line(training_type, speed_test_start_time, time_attack_timer_running,
                     time_attack_remaining_time, correct_answers, incorrect_answers)
    /\ timer' = [timer EXCEPT ![t] = "done"]
    /\ UNCHANGED <<cfgVars, modeVars, is_playing, speed_multiplier, scoreVars, unitVars,
                   challengeVars, speed_test_target, speed_test_completed,
                   speed_test_start_time, timeAttackVars, achievements, status_text, now,
                   starts, ui, histVars>>

\* line 508
TimerSleep(t) ==
    /\ timer[t] = "sleep"
    /\ timer' = [timer EXCEPT ![t] = "check"]
    /\ UNCHANGED <<cfgVars, modeVars, is_playing, input_event, speed_multiplier, scoreVars,
                   unitVars, challengeVars, speedTestVars, stats_text, timeAttackVars, achievements,
                   status_text, now, starts, ui, worker, histVars>>

(***************************************************************************)
(* The threads.                                                            *)
(***************************************************************************)
\* the steps by which the UI thread finishes the handler it is running
StartSteps == StartInit \/ StartPlay \/ StartClear \/ StartThread
StopSteps == StopSet \/ StopRest
KeySteps == KbSet \/ KbScore
SubmitSteps == WsSet \/ WsCheck

SymbolSteps(w) ==
    \/ LoopHead(w) \/ SelectSymbol(w) \/ ClearWord(w) \/ Generate(w)
    \/ ClearBeforeInput(w) \/ Surface(w) \/ CheckBeforeWait(w) \/ Wait(w)
    \/ WaitReturn(w) \/ LoopTail(w)

WordSteps(w) ==
    \/ SelectWord(w) \/ ClearSymbol(w) \/ PlayLetter(w) \/ PlayLetterSleep(w)
    \/ WordPlayed(w) \/ WordClear(w) \/ WordCheck(w) \/ WordWait(w) \/ WordWaitReturn(w)

TimerSteps(t) ==
    \/ TimerCheck(t) \/ TimerBody(t) \/ TimerExpire(t) \/ TimerExpireSet(t)
    \/ TimerSleep(t)

\* a thread slot is free for the session to start
CanStart == FreeWorkers # {} /\ FreeTimers # {}

(***************************************************************************)
(* Training on single symbols or on words: one session, answered with at   *)
(* most MaxAnswers scoring inputs, stopped at will.                        *)
(***************************************************************************)
InitTraining ==
    \E type \in {"normal", "words"} :
        Configured(Symbols, TRUE, type, DEFAULT_SPEED_TEST_TARGET,
                   DEFAULT_TIME_ATTACK_DURATION)

NextTraining ==
    \/ starts = 0 /\ StartClick
    \/ StopClick
    \/ \E k \in Keys, shift \in BOOLEAN :
          correct_answers + incorrect_answers < MaxAnswers /\ on_keyboard_event(k, shift)
    \/ \E text \in InputTexts :
          correct_answers + incorrect_answers < MaxAnswers /\ on_word_submit(text)
    \/ StartSteps \/ StopSteps \/ KeySteps \/ SubmitSteps
    \/ \E w \in Workers : SymbolSteps(w) \/ WordSteps(w)

SpecTraining == InitTraining /\ [][NextTraining]_vars

(***************************************************************************)
(* Challenge mode on the one symbol "1": one session, answered until       *)
(* MaxCorrect correct answers, with at most MaxMistakes incorrect ones.    *)
(***************************************************************************)
InitChallenge ==
    Configured({"1"}, TRUE, "challenge", DEFAULT_SPEED_TEST_TARGET,
               DEFAULT_TIME_ATTACK_DURATION)

NextChallenge ==
    \/ starts = 0 /\ StartClick
    \/ \E k \in Keys, shift \in BOOLEAN :
          /\ correct_answers < MaxCorrect
          /\ k = "1" \/ incorrect_answers < MaxMistakes
          /\ on_keyboard_event(k, shift)
    \/ StartSteps \/ KeySteps
    \/ \E w \in Workers : SymbolSteps(w)

SpecChallenge == InitChallenge /\ [][NextChallenge]_vars

(***************************************************************************)
(* One session of any training type, training mode on or off, on the       *)
(* symbol "1" or with nothing selected: answered with at most MaxAnswers   *)
(* scoring inputs, stopped at will or by the program, while time passes up *)
(* to the duration of a time_attack session.                               *)
(***************************************************************************)
InitModes ==
    \E sel \in {{}, {"1"}}, mode \in BOOLEAN, type \in TrainingTypes :
        Configured(sel, mode, type, 1, 30)

NextModes ==
    \/ starts = 0 /\ StartClick
    \/ StopClick
    \/ \E k \in Keys, shift \in BOOLEAN :
          correct_answers + incorrect_answers < MaxAnswers /\ on_keyboard_event(k, shift)
    \/ \E text \in InputTexts :
          correct_answers + incorrect_answers < MaxAnswers /\ on_word_submit(text)
    \/ StartSteps \/ StopSteps \/ KeySteps \/ SubmitSteps
    \/ \E w \in Workers : SymbolSteps(w) \/ WordSteps(w)
    \/ \E t \in Timers : TimerSteps(t)
    \/ now < time_attack_duration /\ Tick

SpecModes == InitModes /\ [][NextModes]_vars

(***************************************************************************)
(* One weak_spots session that starts with answers already tallied: up to  *)
(* MaxTracked symbols are in symbol_stats, in any order and with any of    *)
(* the Tallies, left there by earlier sessions (a change of training type  *)
(* resets the counters and keeps symbol_stats).  Symbols are ticked and    *)
(* unticked while the worker selects its first symbol, plays it and waits. *)
(***************************************************************************)
MaxTracked == 2
TrackedSymbols == {"1", "Ru_S", "Ru_O"}

\* <<correct, incorrect>>: never answered, mostly wrong, mostly right, only right
Tallies == {<<0, 0>>, <<1, 4>>, <<4, 1>>, <<2, 0>>}

\* the dicts whose keys, in order, are q and whose n-th entry holds the tally t[n]
StatsOf(q, t) ==
    [s \in {q[n] : n \in DOMAIN q} |->
        LET n == CHOOSE m \in DOMAIN q : q[m] = s
        IN  [correct |-> t[n][1], incorrect |-> t[n][2], order |-> n]]

StatsInputs ==
    UNION {{StatsOf(q, t) :
                q \in {r \in [1..m -> TrackedSymbols] :
                          \A a, b \in 1..m : a # b => r[a] # r[b]},
                t \in [1..m -> Tallies]} : m \in 0..MaxTracked}

InitWeakSpots ==
    \E sel \in SUBSET Symbols \ {{}}, stats \in StatsInputs :
        ConfiguredWith(sel, TRUE, "weak_spots", DEFAULT_SPEED_TEST_TARGET,
                       DEFAULT_TIME_ATTACK_DURATION, stats)

NextWeakSpots ==
    \/ starts = 0 /\ StartClick
    \/ StartSteps
    \/ \E symbol \in Symbols : toggle_symbol(symbol)
    \/ \E w \in Workers :
          \/ LoopHead(w) \/ SelectSymbol(w) \/ ClearWord(w) \/ Generate(w)
          \/ ClearBeforeInput(w) \/ Surface(w) \/ CheckBeforeWait(w) \/ Wait(w)

SpecWeakSpots == InitWeakSpots /\ [][NextWeakSpots]_vars

(***************************************************************************)
(* The timing of one symbol: its pattern is any sequence of up to          *)
(* MaxPattern dots and dashes, the speed slider is moved at will, and the  *)
(* symbol is synthesised and measured again and again.                     *)
(***************************************************************************)
MaxPattern == 3

Patterns == UNION {[1..n -> {".", "-"}] : n \in 0..MaxPattern}

InitTiming ==
    \E morse_code \in Patterns :
        ConfiguredFor(Symbols, FALSE, "normal", DEFAULT_SPEED_TEST_TARGET,
                      DEFAULT_TIME_ATTACK_DURATION, EmptyStats, morse_code)

NextTiming ==
    \/ \E value \in MIN_SPEED_MULTIPLIER..MAX_SPEED_MULTIPLIER : on_speed_change(value)
    \/ Synthesize

SpecTiming == InitTiming /\ [][NextTiming]_vars

(***************************************************************************)
(* Sessions on single symbols started and stopped up to MaxStarts times,   *)
(* with no answers.  A thread that can run does run.                       *)
(***************************************************************************)
InitRestart ==
    Configured(Symbols, TRUE, "normal", DEFAULT_SPEED_TEST_TARGET,
               DEFAULT_TIME_ATTACK_DURATION)

NextRestart ==
    \/ starts < MaxStarts /\ CanStart /\ StartClick
    \/ StopClick
    \/ StartSteps \/ StopSteps
    \/ \E w \in Workers : SymbolSteps(w)

FairRestart ==
    /\ InitRestart
    /\ [][NextRestart]_vars
    /\ WF_vars(StartSteps \/ StopSteps)
    /\ \A w \in Workers : WF_vars(SymbolSteps(w))

(***************************************************************************)
(* One time_attack session of 30 seconds with no user input after Start.   *)
(***************************************************************************)
InitTimeAttack == Configured(Symbols, TRUE, "time_attack", DEFAULT_SPEED_TEST_TARGET, 30)

NextTimeAttack ==
    \/ starts = 0 /\ StartClick
    \/ StartSteps
    \/ \E w \in Workers : SymbolSteps(w)
    \/ \E t \in Timers : TimerSteps(t)
    \/ Tick

FairTimeAttack ==
    /\ InitTimeAttack
    /\ [][NextTimeAttack]_vars
    /\ WF_vars(StartSteps)
    /\ \A w \in Workers : WF_vars(SymbolSteps(w))
    /\ \A t \in Timers : WF_vars(TimerSteps(t))

(***************************************************************************)
(* One speed_test session with a target of one symbol.                     *)
(***************************************************************************)
InitSpeedTest == Configured(Symbols, TRUE, "speed_test", 1, DEFAULT_TIME_ATTACK_DURATION)

NextSpeedTest ==
    \/ starts = 0 /\ StartClick
    \/ \E k \in Keys, shift \in BOOLEAN :
          correct_answers + incorrect_answers < MaxAnswers /\ on_keyboard_event(k, shift)
    \/ StartSteps \/ KeySteps
    \/ \E w \in Workers : SymbolSteps(w)
    \/ Tick

FairSpeedTest ==
    /\ InitSpeedTest
    /\ [][NextSpeedTest]_vars
    /\ WF_vars(StartSteps \/ KeySteps)
    /\ \A w \in Workers : WF_vars(SymbolSteps(w))

(***************************************************************************)
(* One session on single symbols or on words, on a web host, in a process  *)
(* that read morse_data.json or found none: with none, no symbol has a     *)
(* pattern; with it, the Ukrainian I of "KIT" has none.  `sound` is the    *)
(* empty pattern that morse_codes.get(symbol, "") gives for such a symbol. *)
(* The user starts and stops and gives no answer.  A thread that can run   *)
(* does run.                                                               *)
(***************************************************************************)
InitUnknown ==
    \E type \in {"normal", "words"}, codes \in {morse_data, {}} :
        /\ Constructed(Symbols, TRUE, type, DEFAULT_SPEED_TEST_TARGET,
                       DEFAULT_TIME_ATTACK_DURATION, EmptyStats, << >>)
        /\ Environment(codes, TRUE)

NextUnknown ==
    \/ starts = 0 /\ StartClick
    \/ StopClick
    \/ StartSteps \/ StopSteps
    \/ \E w \in Workers : SymbolSteps(w) \/ WordSteps(w)
    \/ sound.runs = 0 /\ Synthesize

FairUnknown ==
    /\ InitUnknown
    /\ [][NextUnknown]_vars
    /\ WF_vars(StartSteps \/ StopSteps)
    /\ \A w \in Workers : WF_vars(SymbolSteps(w) \/ WordSteps(w))

(***************************************************************************)
(* One session of plain playback (training mode off) in a local process,   *)
(* which writes every symbol to a temporary file: the worker plays symbol  *)
(* after symbol until MaxFiles files have been made, a write may fail, and *)
(* the user stops at will.                                                 *)
(***************************************************************************)
MaxFiles == 52

InitAssets ==
    /\ Constructed(Symbols, FALSE, "normal", DEFAULT_SPEED_TEST_TARGET,
                   DEFAULT_TIME_ATTACK_DURATION, EmptyStats, << >>)
    /\ Environment(morse_data, FALSE)

NextAssets ==
    \/ starts = 0 /\ StartClick
    \/ StopClick
    \/ StartSteps \/ StopSteps
    \/ \E w \in Workers :
          \/ temp_files_made < MaxFiles /\ Generate(w)
          \/ LoopHead(w) \/ SelectSymbol(w) \/ ClearWord(w) \/ ClearBeforeInput(w)
          \/ Surface(w) \/ CheckBeforeWait(w) \/ Pause(w) \/ LoopTail(w)

SpecAssets == InitAssets /\ [][NextAssets]_vars

(***************************************************************************)
(* Sessions on the symbol "1", in normal or challenge mode, started and    *)
(* stopped up to MaxStarts times and answered with at most MaxAnswers      *)
(* scoring inputs in all.                                                  *)
(***************************************************************************)
InitSessions ==
    \E type \in {"normal", "challenge"} :
        Configured({"1"}, TRUE, type, DEFAULT_SPEED_TEST_TARGET,
                   DEFAULT_TIME_ATTACK_DURATION)

NextSessions ==
    \/ starts < MaxStarts /\ CanStart /\ StartClick
    \/ StopClick
    \/ \E k \in {"1", "C"} :
          correct_answers + incorrect_answers < MaxAnswers /\ on_keyboard_event(k, FALSE)
    \/ StartSteps \/ StopSteps \/ KeySteps
    \/ \E w \in Workers : SymbolSteps(w)

SpecSessions == InitSessions /\ [][NextSessions]_vars

(***************************************************************************)
(* One session on the symbol "1" during which the user changes the         *)
(* training type between the single-symbol types and moves the speed       *)
(* slider between its ends, at any moment: before Start, while the session *)
(* runs and after Stop.  At most                                           *)
(* MaxAnswers keys are scored between two resets of symbol_stats, and      *)
(* none once speed_test_completed has reached MaxAnswers.                  *)
(***************************************************************************)
SwitchTypes == {"normal", "challenge", "speed_test"}

\* the answers tallied in symbol_stats
Tallied ==
    IF "1" \in DOMAIN symbol_stats
    THEN symbol_stats["1"].correct + symbol_stats["1"].incorrect ELSE 0

InitSwitch ==
    \E type \in SwitchTypes : Configured({"1"}, TRUE, type, 1, DEFAULT_TIME_ATTACK_DURATION)

NextSwitch ==
    \/ starts = 0 /\ StartClick
    \/ StopClick
    \/ \E value \in SwitchTypes : on_training_type_change(value)
    \/ \E value \in {MIN_SPEED_MULTIPLIER, MAX_SPEED_MULTIPLIER} : on_speed_change(value)
    \/ \E k \in {"1", "C"} :
          /\ Tallied < MaxAnswers
          /\ speed_test_completed < MaxAnswers
          /\ on_keyboard_event(k, FALSE)
    \/ StartSteps \/ StopSteps \/ KeySteps
    \/ \E w \in Workers : SymbolSteps(w)

SpecSwitch == InitSwitch /\ [][NextSwitch]_vars

(***************************************************************************)
(* One session on the symbol "1", in normal or speed_test mode, during     *)
(* which the user switches training mode off and on and changes the        *)
(* training type at any moment.  Keys are scored as in SpecSwitch.         *)
(***************************************************************************)
ToggleTypes == {"normal", "speed_test"}

InitToggle ==
    \E type \in ToggleTypes : Configured({"1"}, TRUE, type, 1, DEFAULT_TIME_ATTACK_DURATION)

NextToggle ==
    \/ starts = 0 /\ StartClick
    \/ StopClick
    \/ \E value \in ToggleTypes : on_training_type_change(value)
    \/ \E value \in BOOLEAN : toggle_training_mode(value)
    \/ \E k \in {"1", "C"} :
          /\ Tallied < MaxAnswers
          /\ speed_test_completed < MaxAnswers
          /\ on_keyboard_event(k, FALSE)
    \/ StartSteps \/ StopSteps \/ KeySteps
    \/ \E w \in Workers : SymbolSteps(w) \/ Pause(w)

SpecToggle == InitToggle /\ [][NextToggle]_vars

(***************************************************************************)
(* One session on the symbol "1" during which the user changes between     *)
(* single symbols and words at any moment, answering by key and by word    *)
(* with at most MaxAnswers scoring inputs between two resets.              *)
(***************************************************************************)
UnitTypes == {"normal", "words"}

InitUnits ==
    \E type \in UnitTypes :
        Configured({"1"}, TRUE, type, DEFAULT_SPEED_TEST_TARGET,
                   DEFAULT_TIME_ATTACK_DURATION)

NextUnits ==
    \/ starts = 0 /\ StartClick
    \/ StopClick
    \/ \E value \in UnitTypes : on_training_type_change(value)
    \/ Tallied < MaxAnswers /\ on_keyboard_event("1", FALSE)
    \/ /\ correct_answers + incorrect_answers < MaxAnswers
       /\ on_word_submit(<<"Ru_S", "Ru_O", "Ru_S">>)
    \/ StartSteps \/ StopSteps \/ KeySteps \/ SubmitSteps
    \/ \E w \in Workers : SymbolSteps(w) \/ WordSteps(w)

SpecUnits == InitUnits /\ [][NextUnits]_vars

\* Sessions of a user who never errs: every key pressed is a key of the symbol pending
\* at that moment, every text submitted is the word pending at that moment.

RightKey(k) == PressedKey(k) # None /\ IsCorrectKey(PressedKey(k), current_symbol)

RightText(text) ==
    /\ current_word # NoWord
    /\ WordMatches(NormalizeInput(text), current_word)

InitRight ==
    \E type \in {"normal", "words"} :
        Configured(Symbols, TRUE, type, DEFAULT_SPEED_TEST_TARGET,
                   DEFAULT_TIME_ATTACK_DURATION)

NextRight ==
    \/ starts = 0 /\ StartClick
    \/ \E k \in Keys :
          /\ correct_answers + incorrect_answers < MaxAnswers
          /\ RightKey(k)
          /\ on_keyboard_event(k, FALSE)
    \/ \E text \in InputTexts :
          /\ correct_answers + incorrect_answers < MaxAnswers
          /\ RightText(text)
          /\ on_word_submit(text)
    \/ StartSteps \/ KeySteps \/ SubmitSteps
    \/ \E w \in Workers : SymbolSteps(w) \/ WordSteps(w)

SpecRight == InitRight /\ [][NextRight]_vars

(***************************************************************************)
(* time_attack sessions on the symbol "1", started and stopped up to       *)
(* MaxStarts times within the same second, with no answers: the playback   *)
(* threads and the timer threads of successive sessions.                   *)
(***************************************************************************)
InitThreads ==
    Configured({"1"}, TRUE, "time_attack", DEFAULT_SPEED_TEST_TARGET,
               DEFAULT_TIME_ATTACK_DURATION)

NextThreads ==
    \/ starts < MaxStarts /\ CanStart /\ StartClick
    \/ StopClick
    \/ StartSteps \/ StopSteps
    \/ \E w \in Workers : SymbolSteps(w)
    \/ \E t \in Timers : TimerCheck(t) \/ TimerBody(t) \/ TimerSleep(t)

SpecThreads == InitThreads /\ [][NextThreads]_vars

(***************************************************************************)
(* One session on the symbol "1", in normal or challenge mode, during      *)
(* which the user switches training mode off and on, changes the training  *)
(* type and moves the speed slider between its ends at any moment.  At     *)
(* most MaxTallied keys are scored between two resets of symbol_stats:     *)
(* enough for two level-ups.                                               *)
(***************************************************************************)
MaxTallied == 10

LevelTypes == {"normal", "challenge"}

InitLevels ==
    Configured({"1"}, TRUE, "challenge", DEFAULT_SPEED_TEST_TARGET,
               DEFAULT_TIME_ATTACK_DURATION)

NextLevels ==
    \/ starts = 0 /\ StartClick
    \/ \E value \in LevelTypes : on_training_type_change(value)
    \/ \E value \in BOOLEAN : toggle_training_mode(value)
    \/ \E value \in {MIN_SPEED_MULTIPLIER, MAX_SPEED_MULTIPLIER} : on_speed_change(value)
    \/ \E k \in {"1", "C"} : Tallied < MaxTallied /\ on_keyboard_event(k, FALSE)
    \/ StartSteps \/ KeySteps
    \/ \E w \in Workers : SymbolSteps(w) \/ Pause(w)

SpecLevels == InitLevels /\ [][NextLevels]_vars

(***************************************************************************)
(* One weak_spots session that starts with a crowded symbol_stats: earlier *)
(* sessions on all the digits left nine or ten of them with one incorrect  *)
(* answer each, and the letter "Ru_S" with answers of its own, tallied     *)
(* before or after the digits.  The ticks are changed while the worker     *)
(* selects its first symbol, plays it and waits.                           *)
(***************************************************************************)
DigitOrder == <<"0", "1", "2", "3", "4", "5", "6", "7", "8", "9">>

\* the dict of the digits in D, one incorrect answer each, and of "Ru_S" with tally
CrowdedStats(D, tally, letter_first) ==
    LET IsTracked(d) == d \in D
        ds == SelectSeq(DigitOrder, IsTracked)
        q == IF letter_first THEN <<"Ru_S">> \o ds ELSE Append(ds, "Ru_S")
    IN  StatsOf(q, [n \in DOMAIN q |-> IF q[n] = "Ru_S" THEN tally ELSE <<0, 1>>])

InitCrowded ==
    \E D \in {E \in SUBSET digits : Cardinality(E) >= WEAK_SYMBOLS_LIMIT - 1},
       tally \in {<<1, 4>>, <<0, 2>>, <<2, 0>>}, letter_first \in BOOLEAN :
        ConfiguredWith(Symbols, TRUE, "weak_spots", DEFAULT_SPEED_TEST_TARGET,
                       DEFAULT_TIME_ATTACK_DURATION, CrowdedStats(D, tally, letter_first))

NextCrowded ==
    \/ starts = 0 /\ StartClick
    \/ StartSteps
    \/ \E symbol \in Symbols : toggle_symbol(symbol)
    \/ \E w \in Workers :
          \/ LoopHead(w) \/ SelectSymbol(w) \/ ClearWord(w) \/ Generate(w)
          \/ ClearBeforeInput(w) \/ Surface(w) \/ CheckBeforeWait(w) \/ Wait(w)

SpecCrowded == InitCrowded /\ [][NextCrowded]_vars

(***************************************************************************)
(* One session on the symbol "1" of a logged-in user who, before Start and  *)
(* after Stop, ticks and unticks training mode and changes between the     *)
(* types normal and time_attack, and who answers with the right key at     *)
(* most MaxAnswers times between two resets of the counters.  All happens  *)
(* within one second.                                                      *)
(***************************************************************************)
RecordTypes == {"normal", "time_attack"}

InitRecords ==
    Configured({"1"}, FALSE, "normal", DEFAULT_SPEED_TEST_TARGET,
               DEFAULT_TIME_ATTACK_DURATION)

NextRecords ==
    \/ starts = 0 /\ StartClick
    \/ StopClick
    \/ \E value \in RecordTypes : ~is_playing /\ on_training_type_change(value)
    \/ \E value \in BOOLEAN : ~is_playing /\ toggle_training_mode(value)
    \/ correct_answers < MaxAnswers /\ Tallied < MaxAnswers /\ on_keyboard_event("1", FALSE)
    \/ StartSteps \/ StopSteps \/ KeySteps
    \/ \E w \in Workers : SymbolSteps(w) \/ Pause(w)
    \/ \E t \in Timers : TimerCheck(t) \/ TimerBody(t) \/ TimerSleep(t)

SpecRecords == InitRecords /\ [][NextRecords]_vars

(***************************************************************************)
(* The account handlers.  The login screen is shown while nobody is logged *)
(* in, the logout button and the main screen while somebody is.            *)
(***************************************************************************)
trainerVars ==
    <<selected, sound, assetVars, modeVars, is_playing, input_event, speed_multiplier,
      scoreVars, unitVars, challengeVars, speedTestVars, timeAttackVars, achievements,
      stats_text, now, starts, ui, worker, timer, histVars>>

\* lines 1282-1328; the two fields hold username_field and password_field
on_login_click(username_field, password_field) ==
    /\ ui.pc = "idle"
    /\ ~is_logged_in
    /\ LET username == Strip(username_field)
           user == login_user(users, username, password_field)
       IN  IF username = << >> \/ password_field = << >>
           THEN /\ login_status_text' = "enter_both"
                /\ UNCHANGED <<is_logged_in, current_user, admin_btn_visible,
                               admin_panel_open, status_text>>
           ELSE IF user # NoUser
           THEN /\ admin_panel_open' = FALSE
                /\ current_user' = user
                /\ is_logged_in' = TRUE
                /\ admin_btn_visible' = is_admin(username)
                /\ status_text' = "welcome"
                /\ UNCHANGED login_status_text
           ELSE /\ login_status_text' = "wrong_credentials"
                /\ UNCHANGED <<is_logged_in, current_user, admin_btn_visible,
                               admin_panel_open, status_text>>
    /\ UNCHANGED <<users, register_status_text, trainerVars>>

\* lines 1330-1368 (and the same checks in the dialog's register_submit, 1461-1520)
on_register_click(username_field, password_field, confirm_field) ==
    /\ ui.pc = "idle"
    /\ ~is_logged_in
    /\ LET username == Strip(username_field)
           done == register_user(users, username, password_field)
       IN  IF username = << >> \/ password_field = << >>
           THEN register_status_text' = "enter_both" /\ UNCHANGED users
           ELSE IF Len(username) < 3
           THEN register_status_text' = "login_too_short" /\ UNCHANGED users
           ELSE IF Len(password_field) < 4
           THEN register_status_text' = "password_too_short" /\ UNCHANGED users
           ELSE IF password_field # confirm_field
           THEN register_status_text' = "passwords_differ" /\ UNCHANGED users
           ELSE /\ users' = done.users
                /\ register_status_text' =
                       IF done.success THEN "registered" ELSE "name_taken"
    /\ UNCHANGED <<is_logged_in, current_user, admin_btn_visible, admin_panel_open,
                   login_status_text, status_text, trainerVars>>

\* lines 1370-1397
on_logout_click ==
    /\ ui.pc = "idle"
    /\ is_logged_in
    /\ current_user' = NoUser
    /\ is_logged_in' = FALSE
    /\ login_status_text' = ""
    /\ admin_btn_visible' = FALSE
    /\ UNCHANGED <<users, admin_panel_open, register_status_text, status_text,
                   trainerVars>>

\* lines 1597-1815; a click on the admin button, which is there only while it is visible
show_admin_panel ==
    /\ ui.pc = "idle"
    /\ admin_btn_visible
    /\ IF ~is_logged_in \/ current_user = NoUser
       THEN UNCHANGED admin_panel_open
       ELSE IF ~is_admin(current_user.username)
       THEN UNCHANGED admin_panel_open
       ELSE admin_panel_open' = TRUE
    /\ UNCHANGED <<is_logged_in, users, current_user, admin_btn_visible,
                   login_status_text, register_status_text, status_text, trainerVars>>

\* lines 1740-1790
close_admin_dialog ==
    /\ ui.pc = "idle"
    /\ admin_panel_open
    /\ admin_panel_open' = FALSE
    /\ UNCHANGED <<is_logged_in, users, current_user, admin_btn_visible,
                   login_status_text, register_status_text, status_text, trainerVars>>

(***************************************************************************)
(* The accounts of a fresh database: people register and log in with the   *)
(* names and passwords below, open and close the admin panel and log out.  *)
(* The table holds at most MaxUsers rows.                                  *)
(***************************************************************************)
NameInputs ==
    { << >>,
      <<"a", "b">>,
      <<"a", "d", "m", "i", "n">>,
      <<" ", "A", "d", "m", "i", "n", " ">>,
      <<"A", "D", "M", "I", "N">>,
      <<"b", "o", "b">> }

PasswordInputs ==
    { << >>,
      <<"a", "b", "c">>,
      <<"a", "d", "m", "i", "n">>,
      <<"p", "a", "s", "s">> }

InitAccounts ==
    /\ AtLoginScreen
    /\ Assembled(Symbols, FALSE, "normal", DEFAULT_SPEED_TEST_TARGET,
                 DEFAULT_TIME_ATTACK_DURATION, EmptyStats, << >>)
    /\ Environment(morse_data, TRUE)

NextAccounts ==
    \/ \E u \in NameInputs, p \in PasswordInputs : on_login_click(u, p)
    \/ \E u \in NameInputs, p, c \in PasswordInputs :
           Len(users) < MaxUsers /\ on_register_click(u, p, c)
    \/ on_logout_click
    \/ show_admin_panel
    \/ close_admin_dialog

SpecAccounts == InitAccounts /\ [][NextAccounts]_vars

\* the entry of a symbol's tally, 0 while the symbol has none
TallyOf(stats, sym, side) == IF sym \in DOMAIN stats THEN stats[sym][side] ELSE 0

\* C1: at most one answer is scored per presented unit: between the selection of a unit
\* and the selection of the next one, correct_answers + incorrect_answers grows by at most 1
OneAnswerPerUnit == training_mode => unit_answers <= 1

\* a unit that was answered twice
UnitAnsweredTwice == training_mode /\ unit_answers = 2 /\ ui.pc = "idle"

\* C7: a worker that returns from input_event.wait() while the session is running and no
\* handler is in progress finds exactly one answer scored since the signal was last reset
ReleasedByScoring ==
    [][\A w \in Workers :
          ((WaitReturn(w) \/ WordWaitReturn(w)) /\ is_playing /\ ui.pc = "idle")
              => clear_answers = 1]_vars

\* C8: on_keyboard_event and on_word_submit called with input_event set return at once and
\* leave the counters, the tallies, the challenge state, the speed, the completion count
\* and the signal unchanged
AnswerGuardNoOp ==
    [][LET NoOp == /\ ui'.pc = "idle"
                   /\ UNCHANGED <<correct_answers, incorrect_answers, symbol_stats,
                                  challenge_correct_streak, challenge_level,
                                  speed_multiplier, speed_test_completed, input_event>>
       IN  /\ \A k \in Keys, shift \in BOOLEAN :
                (input_event /\ on_keyboard_event(k, shift)) => NoOp
           /\ \A text \in InputTexts :
                (input_event /\ on_word_submit(text)) => NoOp]_vars

\* an input was turned away at the answer guard while a worker had a unit pending
InputIgnored ==
    /\ ui.ignored
    /\ input_event
    /\ is_playing
    /\ correct_answers + incorrect_answers = 1

Typed(text) == SelectSeq(Upper(Strip(text)), LAMBDA c : c # Space)

\* C10: check_word_answer scores a submission correct iff the typed text, trimmed,
\* upper-cased and with spaces removed, equals the pending word upper-cased, and incorrect
\* otherwise unless nothing is left of the text; a padded lower-case spelling is accepted
\* and the Latin look-alike SOS is scored incorrect
WordCheckRule ==
    [][WsCheck =>
          LET hit == Typed(ui.text) = Upper(current_word)
          IN  /\ (correct_answers' = correct_answers + 1) <=> hit
              /\ (incorrect_answers' = incorrect_answers + 1)
                    <=> (~hit /\ Typed(ui.text) # << >>)
              /\ (current_word = Word_SOS
                    /\ ui.text = <<Space, "ru_s", "ru_o", "ru_s", Space>>)
                    => correct_answers' = correct_answers + 1
              /\ (current_word = Word_SOS /\ ui.text = <<"S", "O", "S">>)
                    => incorrect_answers' = incorrect_answers + 1]_vars

\* the padded lower-case spelling was accepted, and another submission scored incorrect
PaddedWordAccepted ==
    /\ ui.pc = "idle"
    /\ ui.text = <<Space, "ru_s", "ru_o", "ru_s", Space>>
    /\ current_word = Word_SOS
    /\ correct_answers = 1
    /\ incorrect_answers = 1

\* every playback worker has left play_symbols_loop
WorkersGone == \A w \in Workers : worker[w].pc \in {"idle", "done"}

\* C2: after the stop branch of on_start_stop_click has run, and unless a new start
\* follows, every playback worker eventually leaves play_symbols_loop
StopTerminatesWorker ==
    (~is_playing /\ ui.pc = "idle") ~> (WorkersGone \/ ui.pc = "start_init")

\* a session was stopped while a worker was blocked in the wait
StoppedWhileBlocked ==
    /\ ui.pc = "stop_rest"
    /\ \E w \in Workers : worker[w].pc = "s_ret"

\* the duration of the time_attack session has elapsed
TimeIsUp ==
    /\ training_mode
    /\ training_type = "time_attack"
    /\ is_playing
    /\ ui.pc = "idle"
    /\ time_attack_start_time # NoTime
    /\ now - time_attack_start_time >= time_attack_duration

\* C3: in a time_attack session, once the elapsed time reaches time_attack_duration the
\* session stops with no user input: is_playing becomes false and no worker stays blocked
\* in the input wait
TimeAttackStops ==
    TimeIsUp ~> (~is_playing /\ \A w \in Workers : worker[w].pc # "s_blocked")

\* the timer thread ended the session
TimerEndedSession ==
    /\ ~is_playing
    /\ status_text = "playing"
    /\ \E t \in Timers : timer[t] = "done"
    /\ time_attack_remaining_time = 0

\* the count of the speed_test session has reached the target
TargetReached ==
    /\ training_mode
    /\ training_type = "speed_test"
    /\ is_playing
    /\ ui.pc = "idle"
    /\ speed_test_completed >= speed_test_target

\* C4: in a speed_test session, once speed_test_completed reaches speed_test_target the
\* worker sets is_playing false and leaves the loop with no further user input, and the
\* WPM reported is never negative
SpeedTestStops ==
    /\ [](speed_test_wpm >= 0)
    /\ TargetReached ~> (~is_playing /\ WorkersGone)

\* the worker ended the speed_test session at the loop head
WorkerEndedSpeedTest ==
    /\ training_type = "speed_test"
    /\ ~is_playing
    /\ speed_test_completed >= speed_test_target
    /\ WorkersGone
    /\ starts = 1

\* C5: in challenge mode the correct answer that brings the streak to 5 raises the level
\* by exactly 1, resets the streak to 0 and sets the speed to
\* min(1.0 + (level - 1) * 0.1, 2.0); a correct answer that leaves the streak below 5
\* raises the streak by 1 and changes neither level nor speed
ChallengeLevelUp ==
    [][(KbScore /\ training_type = "challenge" /\ correct_answers' = correct_answers + 1)
          => IF challenge_correct_streak + 1 = 5
             THEN /\ challenge_level' = challenge_level + 1
                  /\ challenge_correct_streak' = 0
                  /\ speed_multiplier' = Min(10 + (challenge_level' - 1), 20)
             ELSE /\ challenge_correct_streak' = challenge_correct_streak + 1
                  /\ challenge_correct_streak' < 5
                  /\ UNCHANGED <<challenge_level, speed_multiplier>>]_vars

\* the level has passed the one at which the speed reaches its cap
SpeedCapped ==
    /\ training_type = "challenge"
    /\ challenge_level = 12
    /\ speed_multiplier = 20
    /\ correct_answers = 55

\* C6: in challenge mode an incorrect answer leaves challenge_level = 1,
\* speed_multiplier = 1.0 and challenge_correct_streak = 0, whatever they were
ChallengeFullReset ==
    [][(KbScore /\ training_type = "challenge"
            /\ incorrect_answers' = incorrect_answers + 1)
          => /\ challenge_level' = 1
             /\ speed_multiplier' = 10
             /\ challenge_correct_streak' = 0]_vars

\* an incorrect answer at the capped speed, with a streak running, was reset
ResetFromCap ==
    /\ training_type = "challenge"
    /\ incorrect_answers = 1
    /\ correct_answers = 53
    /\ challenge_level = 1
    /\ speed_multiplier = 10
    /\ challenge_correct_streak = 0
\* everything but the UI thread's own position
sessionVars ==
    <<selected, is_logged_in, sound, morse_codes, use_data_uri, temp_audio_files,
      temp_files_made, training_mode, training_type, word_input_visible,
      speed_slider_disabled, is_playing, input_event, speed_multiplier, correct_answers,
      incorrect_answers, symbol_stats, current_symbol, current_word,
      challenge_correct_streak, challenge_level, speed_test_target, speed_test_completed,
      speed_test_start_time, speed_test_wpm, time_attack_duration, time_attack_start_time,
      time_attack_remaining_time, time_attack_timer_running, achievements, status_text,
      stats_text, now, starts, worker, timer, unit_answers, clear_answers>>

\* C11: on_keyboard_event called with shift held returns at once, in every training type,
\* with training mode on or off and whether or not a unit is pending: no variable of the
\* session changes and the UI thread is free again
ShiftKeyIgnored ==
    [][\A k \in Keys :
          on_keyboard_event(k, TRUE) => (ui'.pc = "idle" /\ UNCHANGED sessionVars)]_vars

\* a key was pressed with shift held while a worker was blocked waiting for the answer to
\* the symbol it had played
ShiftPressedWhilePending ==
    /\ ui.shift
    /\ training_mode
    /\ is_playing
    /\ current_symbol # None
    /\ ~input_event
    /\ \E w \in Workers : worker[w].pc = "s_blocked"

\* C12: a Start click with nothing selected is rejected: is_playing stays false, no worker
\* and no timer is started, the speed_test and time_attack state is untouched, and nothing
\* but the status message changes
EmptySelectionRejected ==
    [][(StartClick /\ selected = {}) =>
          /\ ~is_playing'
          /\ status_text' = "select_symbols"
          /\ ui'.pc = "idle"
          /\ UNCHANGED <<worker, timer, starts, speedTestVars, timeAttackVars, cfgVars,
                         modeVars, is_playing, input_event, speed_multiplier, scoreVars,
                         unitVars, challengeVars, achievements, stats_text, now,
                         histVars>>]_vars

\* Start was refused for an empty selection with training mode on and type time_attack
StartRefused ==
    /\ status_text = "select_symbols"
    /\ selected = {}
    /\ training_mode
    /\ training_type = "time_attack"
    /\ ui.pc = "idle"

\* C13: no division by zero happens: every accuracy and WPM the program has computed, in
\* the status line (stop handler, worker auto-stop), the stats line, speed_test_wpm and
\* the achievement records, is a number; an accuracy over no answers is 0, and the WPM
\* over no elapsed time is 0
NoDivisionByZero ==
    /\ status_text # "ZeroDivisionError"
    /\ stats_text # "ZeroDivisionError"
    /\ speed_test_wpm # ZeroDivisionError
    /\ speed_test_start_time = now => speed_test_wpm = 0
    /\ \A n \in DOMAIN achievements :
          /\ achievements[n].accuracy # ZeroDivisionError
          /\ achievements[n].wpm # ZeroDivisionError
          /\ (achievements[n].correct_answers + achievements[n].incorrect_answers = 0)
                => achievements[n].accuracy = 0

\* the accuracy of a time_attack session with no answers was computed for the status
\* line, for the stats line and for an achievement record
AccuracyOverNoAnswers ==
    /\ correct_answers + incorrect_answers = 0
    /\ status_text = "time_up"
    /\ stats_text = "timer_done"
    /\ achievements # << >>

\* C14: no achievement record is handed to the store for a session in which no answer was
\* recorded, whatever the training type
NoRecordWithoutAnswers ==
    \A n \in DOMAIN achievements :
        achievements[n].correct_answers + achievements[n].incorrect_answers > 0

\* a time_attack session stopped by hand before any answer left a record
EmptySessionRecorded ==
    /\ training_mode
    /\ training_type = "time_attack"
    /\ correct_answers + incorrect_answers = 0
    /\ ~is_playing
    /\ ui.pc = "idle"
    /\ Len(achievements) = 1
    /\ achievements[1].mode = "time_attack"

\* the session has ended: nothing is playing, the handler that stopped it has returned and
\* no thread of it is left
SessionEnded ==
    /\ starts = 1
    /\ ~is_playing
    /\ ui.pc = "idle"
    /\ WorkersGone
    /\ \A t \in Timers : timer[t] \in {"idle", "done"}

\* C15: a training session of a logged-in user in which at least one answer was scored has,
\* once it has ended (by Stop, by the speed_test target or by time_attack expiry), produced
\* exactly one save_achievement call
OneRecordPerSession ==
    (SessionEnded /\ training_mode /\ is_logged_in
        /\ correct_answers + incorrect_answers >= 1)
      => Len(achievements) = 1

\* a speed_test session ended by the worker at its target, after one correct answer and
\* some elapsed time, with no record saved
TargetReachedUnsaved ==
    /\ SessionEnded
    /\ training_mode
    /\ training_type = "speed_test"
    /\ speed_test_completed >= speed_test_target
    /\ correct_answers = 1
    /\ now > speed_test_start_time
    /\ status_text = "test_done"
    /\ achievements = << >>

\* the error rate of a tracked symbol in thousandths
ErrorRate(s) == (symbol_stats[s].incorrect * 1000) \div Total(symbol_stats[s])

WeakSpotsWithinSelection ==
    [][\A w \in Workers :
          SelectSymbol(w) =>
             /\ get_weak_symbols =
                   IF error_rates \cap selected # {} THEN error_rates \cap selected
                   ELSE selected
             /\ current_symbol' \in selected \cup worker[w].symbols]_vars

\* the session was started on the symbol "1" alone, nothing is ticked any more, and the
\* worker has presented another symbol
UnselectedSymbolPresented ==
    /\ selected = {}
    /\ is_playing
    /\ \E w \in Workers :
          /\ worker[w].pc = "s_word"
          /\ worker[w].symbols = {"1"}
          /\ worker[w].symbol = current_symbol
    /\ current_symbol = "Ru_O"

\* no tracked symbol has an incorrect answer
NoErrorHistory == \A s \in DOMAIN symbol_stats : symbol_stats[s].incorrect = 0

\* C18: in weak_spots mode with no error history, which includes symbols tallied with
\* correct answers only, the worker draws the next symbol from the whole selection
FullSelectionWithoutErrors ==
    [][\A w \in Workers :
          (SelectSymbol(w) /\ NoErrorHistory /\ selected # {})
              => available_symbols(w) = selected]_vars

\* a worker selected while both symbols were ticked and the only tally was two correct
\* answers on "1"
SelectedWithOnlyCorrectTallies ==
    /\ selected = Symbols
    /\ DOMAIN symbol_stats = {"1"}
    /\ symbol_stats["1"].correct = 2
    /\ symbol_stats["1"].incorrect = 0
    /\ \E w \in Workers : worker[w].pc = "s_word" /\ worker[w].symbols = Symbols

\* the dot durations a pattern takes: one per dot, three per dash, one per gap between
\* two elements
DotUnits(morse_code) ==
    Cardinality({n \in DOMAIN morse_code : morse_code[n] = "."})
      + 3 * Cardinality({n \in DOMAIN morse_code : morse_code[n] = "-"})
      + (Len(morse_code) - 1)

\* two durations are the same time; the first is no longer than the second
SameTime(a, b) == a.num * b.den = b.num * a.den
NoLonger(a, b) == a.num * b.den <= b.num * a.den

\* the samples of a dot at a speed: the whole samples in BASE_DIT / s seconds
DotSamples(speed) == (AUDIO_SAMPLE_RATE * BASE_DIT_DURATION) \div (10 * speed)

\* the samples of a dash as generate_morse_audio cuts them: the whole samples in
\* 3 * BASE_DIT / s seconds
DashSamples(speed) == (AUDIO_SAMPLE_RATE * BASE_DIT_DURATION * 3) \div (10 * speed)

\* the layout of audio_data for a pattern: a tone for each element, of dot or dash samples,
\* a silence of one dot between two elements, and nothing after the last tone
LaidOut(data, morse_code, dot, dash) ==
    /\ Len(data) = 2 * Len(morse_code) - 1
    /\ \A n \in DOMAIN data :
          IF n % 2 = 1
          THEN /\ data[n].tone
               /\ data[n].samples = IF morse_code[(n + 1) \div 2] = "." THEN dot ELSE dash
          ELSE /\ ~data[n].tone
               /\ data[n].samples = dot

\* C19: for every pattern of dots and dashes and every speed s, calculate_symbol_duration
\* gives (dots + 3 * dashes + (marks - 1)) times BASE_DIT / s, and the sample layout of
\* generate_morse_audio gives a dot the samples of BASE_DIT / s, a dash exactly three
\* times those, a gap between two marks exactly once those, and no gap after the last mark
TimingModel ==
    (sound.runs > 0 /\ sound.morse_code # << >>) =>
        /\ SameTime(sound.duration,
                    Seconds(BASE_DIT_DURATION * DotUnits(sound.morse_code),
                            10 * sound.speed))
        /\ LaidOut(sound.audio_data, sound.morse_code, DotSamples(sound.speed),
                   3 * DotSamples(sound.speed))

\* C19, as the code has it: the duration is as above; in the sample layout a dot and a gap
\* take the whole samples of BASE_DIT / s, a dash the whole samples of 3 * BASE_DIT / s,
\* which is three times the samples of a dot or up to two samples more, and there is no
\* gap after the last mark
TimingModelInSamples ==
    (sound.runs > 0 /\ sound.morse_code # << >>) =>
        /\ SameTime(sound.duration,
                    Seconds(BASE_DIT_DURATION * DotUnits(sound.morse_code),
                            10 * sound.speed))
        /\ LaidOut(sound.audio_data, sound.morse_code, DotSamples(sound.speed),
                   DashSamples(sound.speed))
        /\ DashSamples(sound.speed) >= 3 * DotSamples(sound.speed)
        /\ DashSamples(sound.speed) <= 3 * DotSamples(sound.speed) + 2

\* dot dash was synthesised at speed 1.3: 2713 samples for the dot and for the gap, 8141
\* for the dash
DashLongerThanThreeDots ==
    /\ sound.runs > 0
    /\ sound.speed = 13
    /\ sound.morse_code = <<".", "-">>
    /\ sound.audio_data[1].samples = 2713
    /\ sound.audio_data[2].samples = 2713
    /\ sound.audio_data[3].samples = 8141

\* C20: for every non-empty pattern, a symbol measured at a speed s1 and then at a speed
\* s2 >= s1, both between 1.0 and 2.0 in steps of 0.1, is at s2 no longer than at s1
DurationMonotone ==
    (sound.runs >= 2 /\ sound.morse_code # << >> /\ sound.speed_before <= sound.speed)
        => NoLonger(sound.duration, sound.duration_before)

\* dash dot dash was measured at speed 1.0 and then at speed 2.0, and took half the time
HalvedAtDoubleSpeed ==
    /\ sound.runs >= 2
    /\ sound.morse_code = <<"-", ".", "-">>
    /\ sound.speed_before = MIN_SPEED_MULTIPLIER
    /\ sound.speed = MAX_SPEED_MULTIPLIER
    /\ SameTime(Scale(sound.duration, 2), sound.duration_before)

\* worker w is at generate_morse_audio with a symbol that has no pattern
SymbolUnknown(w) == worker[w].pc = "s_gen" /\ worker[w].symbol \notin morse_codes

\* worker w, playing, is at generate_morse_audio with a letter that has no pattern
LetterUnknown(w) ==
    /\ worker[w].pc = "pw_loop"
    /\ is_playing
    /\ worker[w].word[worker[w].i] \notin morse_codes

\* C21: a symbol without a pattern never fails the loop.  For the empty pattern
\* calculate_symbol_duration gives 0.5 s and generate_morse_audio no audio; no worker
\* thread ever ends with an exception; a worker whose symbol has no pattern goes past the
\* playback (no clear of the signal, no sleep, no wait) to the end of the loop body, and
\* from there on to the selection of another symbol, or out of the loop if the session
\* was stopped; in a word, the letter without a pattern is skipped without a sleep
UnknownSymbolSkipped ==
    /\ [](sound.runs > 0 =>
             /\ sound.duration = Seconds(1, 2)
             /\ sound.audio_data = << >>)
    /\ [](\A w \in Workers : worker[w].pc # "raised")
    /\ [][\A w \in Workers :
             /\ SymbolUnknown(w) /\ worker'[w] # worker[w] =>
                   /\ worker'[w].pc = "s_tail"
                   /\ input_event' = input_event
             /\ LetterUnknown(w) /\ worker'[w] # worker[w] =>
                   \/ worker'[w] = [worker[w] EXCEPT !.i = @ + 1]
                   \/ worker'[w].pc = "pw_after" /\ worker[w].i = Len(worker[w].word)]_vars
    /\ \A w \in Workers : SymbolUnknown(w) ~> worker[w].pc \in {"s_sel", "done"}

\* a playing worker is about to select again, after a symbol that had no pattern
SelectsAfterUnknown ==
    \E w \in Workers :
        /\ worker[w].pc = "s_sel"
        /\ is_playing
        /\ worker[w].symbol # None
        /\ worker[w].symbol \notin morse_codes
        /\ sound.runs > 0

\* the newest file: the one the last NamedTemporaryFile call made
Newest == temp_files_made'

\* C22: the tracked audio files are bounded and evicted oldest first.  At most
\* TEMP_FILES_LIMIT files are tracked, oldest first; a step that changes the list either
\* appends the newest file, dropping the oldest tracked one when the list was full, or is
\* the cleanup of the stop handler, which leaves the list empty; that cleanup always
\* leaves it empty; and a file handed to the worker for playback is tracked
TempFilesBounded ==
    /\ [](Len(temp_audio_files) <= TEMP_FILES_LIMIT)
    /\ [](\A i, j \in DOMAIN temp_audio_files :
             i < j => temp_audio_files[i] < temp_audio_files[j])
    /\ [][/\ temp_audio_files' # temp_audio_files =>
                IF ui.pc = "stop_rest" /\ ui'.pc = "idle"
                THEN temp_audio_files' = << >>
                ELSE IF Len(temp_audio_files) < TEMP_FILES_LIMIT
                THEN temp_audio_files' = Append(temp_audio_files, Newest)
                ELSE temp_audio_files' = Append(Tail(temp_audio_files), Newest)
          /\ (ui.pc = "stop_rest" /\ ui'.pc = "idle") => temp_audio_files' = << >>
          /\ (\E w \in Workers : worker[w].pc = "s_gen" /\ worker'[w].pc = "s_clear") =>
                /\ temp_audio_files' # << >>
                /\ temp_audio_files'[Len(temp_audio_files')] = Newest]_vars

\* the list is full and its oldest files have been dropped while the session plays
OldestDropped ==
    /\ Len(temp_audio_files) = TEMP_FILES_LIMIT
    /\ Head(temp_audio_files) > 1
    /\ is_playing

\* C23: a failed write of an audio file does not end the worker: while the session
\* runs and no handler is at work, a worker thread is alive
WriteFailureSurvived ==
    is_playing /\ ui.pc = "idle" =>
        \E w \in Workers : worker[w].pc \notin {"idle", "done", "raised"}

\* a write has failed and the session is still marked as running
WriteFailed ==
    /\ is_playing
    /\ ui.pc = "idle"
    /\ \E w \in Workers : worker[w].pc = "raised"
    /\ temp_files_made > Len(temp_audio_files)

\* the step of on_start_stop_click that sets is_playing
SessionBegins == ui.pc = "start_play" /\ ui'.pc = "start_clear"

\* C24: the session is reset when training starts: when Start sets is_playing with
\* training mode on, correct_answers and incorrect_answers are 0, the challenge streak
\* is 0 and the challenge level is 1
ResetOnStart ==
    [][SessionBegins /\ training_mode =>
          /\ correct_answers' = 0
          /\ incorrect_answers' = 0
          /\ challenge_correct_streak' = 0
          /\ challenge_level' = 1]_vars

\* a second session is running with the answers of the first still counted
SecondSessionCountsFirst ==
    /\ starts = 2
    /\ is_playing
    /\ ui.pc = "idle"
    /\ correct_answers + incorrect_answers > 0
    /\ unit_answers = 0
    /\ \A w \in Workers : worker[w].pc \in {"s_blocked", "done", "idle"}

\* the step of on_training_type_change: nothing else writes training_type
TypeChanged == training_type' # training_type

\* C25: the counters are zeroed on a change of training type: after
\* on_training_type_change with training mode on, whatever the session was doing,
\* correct_answers, incorrect_answers and the challenge streak are 0 and the challenge
\* level is 1; a change to challenge also puts the speed back to 1.0 and a change to
\* speed_test puts speed_test_completed to 0
CountersZeroedOnSwitch ==
    [][TypeChanged /\ training_mode =>
          /\ correct_answers' = 0
          /\ incorrect_answers' = 0
          /\ challenge_correct_streak' = 0
          /\ challenge_level' = 1
          /\ training_type' = "challenge" => speed_multiplier' = MIN_SPEED_MULTIPLIER
          /\ training_type' = "speed_test" => speed_test_completed' = 0]_vars

\* the type was changed to speed_test in the middle of a running session in which
\* answers had been scored: the counters are 0 and the tallies are not
SwitchedWhileRunning ==
    /\ is_playing
    /\ training_type = "speed_test"
    /\ speed_test_start_time = NoTime
    /\ Tallied > 0
    /\ correct_answers = 0
    /\ incorrect_answers = 0
    /\ speed_test_completed = 0

\* on_start_stop_click is at work: the click, or a step while the handler runs
StartStopAtWork ==
    \/ ui.pc \in {"start_init", "start_play", "start_clear", "start_thread", "stop_set",
                  "stop_rest"}
    \/ ui'.pc \in {"start_init", "stop_set"}

\* C26: the per-symbol tallies persist across mode switches and are reset only when
\* training mode is switched on: a change of training type and the start and stop of a
\* session leave symbol_stats as it is, and toggle_training_mode switching training on
\* empties it
TalliesPersist ==
    [][/\ TypeChanged \/ StartStopAtWork => symbol_stats' = symbol_stats
       /\ ~training_mode /\ training_mode' => symbol_stats' = EmptyStats]_vars

\* training mode was switched off and on after a correct answer in speed_test: the
\* answer is still in speed_test_completed and no longer in the tallies
TalliesEmptied ==
    /\ training_mode
    /\ symbol_stats = EmptyStats
    /\ speed_test_completed > 0

\* C27: in speed_test mode the completed count advances only on correct answers: a step
\* that scores a correct answer adds exactly 1 to speed_test_completed in speed_test mode
\* and leaves it unchanged in every other mode, and a step that scores an incorrect
\* answer leaves it unchanged
CompletedOnlyOnCorrect ==
    [][/\ correct_answers' = correct_answers + 1 =>
             speed_test_completed' =
                IF training_type = "speed_test" THEN speed_test_completed + 1
                ELSE speed_test_completed
       /\ incorrect_answers' = incorrect_answers + 1 =>
             speed_test_completed' = speed_test_completed]_vars

\* a speed_test session has had an incorrect and a correct answer and counts one symbol
OneOfTwoCompleted ==
    /\ training_mode
    /\ training_type = "speed_test"
    /\ correct_answers = 1
    /\ incorrect_answers = 1
    /\ speed_test_completed = 1

\* C28: the pending unit is a single symbol or a word, never both: current_symbol and
\* current_word are not both set
OneKindOfUnit == ~(current_symbol # None /\ current_word # NoWord)

\* a worker has assigned the word it selected and not yet cleared the symbol that was
\* pending before
WordAndSymbolPending ==
    /\ current_symbol # None
    /\ current_word # NoWord
    /\ \E w \in Workers : worker[w].pc = "w_none"


\* C29: every symbol the session can present is in the alphabet of the ten digits and
\* the thirty letters: the pending symbol is one of them, and so is every letter of the
\* pending word and of the word a worker is playing
UnitsInAlphabet ==
    /\ selected \subseteq digits \cup letters
    /\ current_symbol # None => current_symbol \in digits \cup letters
    /\ \A i \in DOMAIN current_word : current_word[i] \in digits \cup letters
    /\ \A w \in Workers :
          \A i \in DOMAIN worker[w].word : worker[w].word[i] \in digits \cup letters

\* a playing worker has reached, in the pending word, a letter that is neither a digit
\* nor one of the thirty letters
LetterOutsideAlphabet ==
    \E w \in Workers :
        /\ worker[w].pc = "pw_loop"
        /\ is_playing
        /\ worker[w].word = current_word
        /\ worker[w].word[worker[w].i] \notin digits \cup letters


\* C30: an answer is judged against the unit that was pending when the input arrived:
\* while an input handler is between releasing the signal and comparing the input, no
\* step replaces current_symbol, respectively current_word
JudgedAgainstPending ==
    [][/\ ui.pc = "kb_score" => current_symbol' = current_symbol
       /\ ui.pc = "ws_check" => current_word' = current_word]_vars

\* the handler of a key of the symbol that was pending has released the signal and is
\* about to compare the key with another symbol, selected since
ComparedWithNextSymbol ==
    /\ ui.pc = "kb_score"
    /\ current_symbol # None
    /\ ~IsCorrectKey(ui.key, current_symbol)
    /\ \E symbol \in selected : IsCorrectKey(ui.key, symbol)


\* the playback threads inside play_symbols_loop, the timer threads inside
\* time_attack_timer
LiveWorkers == Workers \ FreeWorkers
LiveTimers == Timers \ FreeTimers

\* C31: at most one playback worker runs play_symbols_loop at any time, and at most one
\* time_attack timer thread: while a session is running, the worker and the timer of an
\* earlier session are not running alongside the new ones
OneWorkerAtATime ==
    is_playing => Cardinality(LiveWorkers) <= 1 /\ Cardinality(LiveTimers) <= 1

\* in a running session two playback workers have each selected a symbol and are in the
\* sleep that follows it, and two timer threads are in their sleep
TwoWorkersAsleep ==
    /\ is_playing
    /\ ui.pc = "idle"
    /\ \A w \in Workers : worker[w].pc = "s_sleep"
    /\ \A t \in Timers : timer[t] = "sleep"


\* C32: a scored answer is never lost: while the session is running, no worker is
\* blocked in the input wait on a unit for which an answer has been scored since the
\* worker selected it
AnswerNeverLost ==
    (training_mode /\ is_playing) =>
        \A w \in Workers :
            worker[w].pc \in {"s_blocked", "pw_blocked"} => unit_answers = 0

\* the pending symbol was answered once, the worker reset the signal after that answer
\* and is blocked in the wait on the same symbol, with no handler in progress
AnswerClearedAway ==
    /\ training_mode
    /\ is_playing
    /\ ui.pc = "idle"
    /\ unit_answers = 1
    /\ clear_answers = 0
    /\ ~input_event
    /\ \E w \in Workers : worker[w].pc = "s_blocked"


\* worker w is inside play_symbols_loop and has selected a unit
HasSelected(w) ==
    /\ w \in LiveWorkers
    /\ worker[w].symbol # None \/ worker[w].word # NoWord

\* C33: no answer is scored while the session is not running: a step that changes a
\* counter or symbol_stats is taken only while is_playing holds and a worker has selected
\* a unit
ScoredOnlyWhileRunning ==
    [][(\/ correct_answers' # correct_answers
        \/ incorrect_answers' # incorrect_answers
        \/ symbol_stats' # symbol_stats)
          => is_playing /\ \E w \in Workers : HasSelected(w)]_vars

\* after Stop, with every worker gone, a key has passed the guards of on_keyboard_event
\* and is about to be compared with the symbol left over from the ended session
StaleSymbolAnswered ==
    /\ ~is_playing
    /\ WorkersGone
    /\ ui.pc = "kb_score"
    /\ current_symbol # None


\* C34: in a speed_test training session whose target is not changed, the count of
\* completed symbols never exceeds the target
CompletedWithinTarget ==
    (training_mode /\ training_type = "speed_test") =>
        speed_test_completed <= speed_test_target

\* a speed_test session has counted one symbol more than its target
TargetOvershot ==
    /\ training_mode
    /\ training_type = "speed_test"
    /\ ui.pc = "idle"
    /\ speed_test_completed = speed_test_target + 1
    /\ correct_answers = speed_test_completed


\* C35: whenever training mode is on and the type is challenge, the level is at least 1
\* and the speed is min(1.0 + (level - 1) * 0.1, 2.0); a step that raises the level
\* never lowers the speed
ChallengeSpeedRule ==
    /\ []((training_mode /\ training_type = "challenge") =>
             /\ challenge_level >= 1
             /\ speed_multiplier = Min(10 + (challenge_level - 1) * 1, 20))
    /\ [][challenge_level' > challenge_level
             => speed_multiplier' >= speed_multiplier]_vars

\* a challenge is back at level 1 with the speed of level 3 kept, and the correct key that
\* completes the streak is about to be scored
LevelUpFromKeptSpeed ==
    /\ training_mode
    /\ training_type = "challenge"
    /\ challenge_level = 1
    /\ challenge_correct_streak = CHALLENGE_STREAK_THRESHOLD - 1
    /\ speed_multiplier = 10 + 2 * 1
    /\ ui.pc = "kb_score"
    /\ IsCorrectKey(ui.key, current_symbol)


\* C36: in words mode the worker surfaces the letters of the word one after the other
\* with no input wait and no reset of the signal in between, and when all letters are
\* done it resets the signal and then waits once for the whole word; once the session is
\* stopped it surfaces no further letter, does not reset the signal and does not wait
WordThenOneWait ==
    [][\A w \in Workers :
          LET pc == worker[w].pc
              next == worker'[w].pc
              moved == worker'[w] # worker[w]
          IN  /\ (pc \in {"pw_loop", "pw_sleep"} /\ moved) =>
                    /\ next \in {"pw_loop", "pw_sleep", "pw_after"}
                    /\ input_event' = input_event
                    /\ worker'[w].i \in {worker[w].i, worker[w].i + 1}
                    /\ (pc = "pw_loop" /\ ~is_playing) =>
                          next = "pw_after" /\ worker'[w].i = worker[w].i
                    /\ (pc = "pw_loop" /\ is_playing /\ next = "pw_after") =>
                          worker[w].i = Len(worker[w].word)
              /\ (pc = "pw_after" /\ moved) =>
                    /\ next = (IF is_playing THEN "pw_clear" ELSE "head")
                    /\ input_event' = input_event
              /\ (pc = "pw_clear" /\ moved) => next = "pw_chk" /\ ~input_event'
              /\ (pc = "pw_chk" /\ moved) =>
                    next = (IF is_playing THEN "pw_wait" ELSE "head")
              /\ (next \in {"pw_wait", "pw_blocked", "pw_ret"} /\ moved) =>
                    pc \in {"pw_chk", "pw_wait", "pw_blocked"}
              /\ (pc = "pw_ret" /\ moved) => next = "head"]_vars

\* the session was stopped while the worker played a word: the worker has left the word
\* before its last letter and is back at the loop test, with the signal as the stop
\* handler set it
WordAbandoned ==
    \E w \in Workers :
        /\ ~is_playing
        /\ worker[w].pc = "head"
        /\ worker[w].word # NoWord
        /\ worker[w].i < Len(worker[w].word)
        /\ input_event


\* C37: with training mode off the worker never blocks on the input-ready signal, and
\* no step taken while training mode is off changes a counter
NoWaitWithoutTraining ==
    /\ [](~training_mode =>
             \A w \in Workers : worker[w].pc \notin {"s_blocked", "pw_blocked"})
    /\ [][(~training_mode /\ ~training_mode')
             => UNCHANGED <<correct_answers, incorrect_answers>>]_vars

\* training mode is off, the session is running, no handler is in progress, and the
\* worker is blocked in the wait for an answer to its symbol
BlockedWithoutTraining ==
    /\ ~training_mode
    /\ is_playing
    /\ ui.pc = "idle"
    /\ ~input_event
    /\ current_symbol # None
    /\ \E w \in Workers : worker[w].pc = "s_blocked"


\* C38: the weak-spot candidates are the up to ten highest-error-rate symbols within
\* the selection: when a worker selects in weak_spots mode, a selected symbol that has
\* answers is among the symbols the worker draws from whenever fewer than ten selected
\* symbols have a higher error rate
TopTenWithinSelection ==
    [][\A w \in Workers :
          (SelectSymbol(w) /\ training_mode /\ training_type = "weak_spots") =>
              \A s \in selected \cap error_rates :
                  Cardinality({t \in selected \cap error_rates : HigherRate(t, s)})
                        < WEAK_SYMBOLS_LIMIT
                    => s \in available_symbols(w)]_vars

\* both symbols are ticked and have answers, ten digits that are mostly not ticked have
\* a higher error rate than "Ru_S", and the worker has drawn its symbol from a list
\* that holds "1" alone
CrowdedOutOfTopTen ==
    /\ training_mode
    /\ training_type = "weak_spots"
    /\ selected = {"1", "Ru_S"}
    /\ selected \subseteq error_rates
    /\ Cardinality({t \in error_rates \ selected : HigherRate(t, "Ru_S")})
          = WEAK_SYMBOLS_LIMIT - 1
    /\ get_weak_symbols = {"1"}
    /\ \E w \in Workers : worker[w].pc = "s_word" /\ current_symbol = "1"


\* C39: an achievement record is saved only for a session that ran in training mode:
\* the stop of a playback whose training mode is off saves no record
RecordOnlyInTraining ==
    [][Len(achievements') > Len(achievements) => training_mode]_vars

\* a playback with training mode off was stopped and left a time_attack record with no
\* answers, the only record there is
RecordWithoutTraining ==
    /\ ~training_mode
    /\ ~is_playing
    /\ ui.pc = "idle"
    /\ training_type = "time_attack"
    /\ Len(achievements) = 1
    /\ achievements[1].mode = "time_attack"
    /\ achievements[1].symbols_completed = 0
    /\ starts = 1


\* C40: administrator rights belong only to the seeded administrator account: in every
\* users table reached through registrations and logins the only name is_admin accepts is
\* the one of the first, seeded row, and the admin panel opens only while the seeded
\* account is logged in
OnlySeededAdmin ==
    /\ [](\A i \in DOMAIN users :
             is_admin(users[i].username) => users[i] = init_database[1])
    /\ [][(admin_panel_open' /\ ~admin_panel_open)
             => current_user.id = init_database[1].id]_vars

\* a self-registered account whose name differs from the seeded one in case only is
\* logged in and has the admin panel open
AdminPanelOfRegistered ==
    /\ is_logged_in
    /\ admin_panel_open
    /\ current_user.id # init_database[1].id
    /\ current_user.username # ADMIN_NAME
    /\ \E i \in DOMAIN users :
           /\ users[i].id = current_user.id
           /\ users[i].username = current_user.username

====
